---- MODULE Spec2Model ----
(***************************************************************************)
(* Verification model of the ghost-supply routing core:                    *)
(*   decision/cvar_routing.py  (CVaRRouter)                                *)
(*   decision/game_theory.py   (StackelbergRouter)                         *)
(*                                                                         *)
(* Units.  Python floats are modelled by exact scaled integers:            *)
(*   risks handed to _calculate_cvar     tenths            (0.1  -> 1)     *)
(*   alpha                               percent           (0.95 -> 95)    *)
(*   distance_km                         km                                *)
(*   travel_time_hours, eta_hours        hundredths of h   (0.12 -> 12)    *)
(*   time_minutes                        hundredths of min (18.0 -> 1800)  *)
(*   detection_base                      twentieths        (0.3  -> 6)     *)
(*   visibility, scenario multipliers    tenths            (0.5  -> 5)     *)
(*   cargo_value                         units (cargo_value / 10 is kept   *)
(*                                       as the factor cargo_value and a   *)
(*                                       denominator 10)                   *)
(*   risk_weight                         1 / 200                           *)
(*   edge and path risks                 1 / RiskScale                     *)
(* A mean is kept as the exact fraction [num, den] and compared by         *)
(* cross-multiplication.                                                   *)
(***************************************************************************)
EXTENDS Integers, Sequences, FiniteSets, TLC

VARIABLES
    risks,      \* the list handed to CVaRRouter._calculate_cvar
    cvarOut,    \* alpha |-> value returned by _calculate_cvar(risks, alpha)
    graph,      \* CVaRRouter.graph: edge <<u, v>> |-> attribute dictionary
    lastCall,   \* the last router call: operation, arguments, drawn inputs
    result,     \* what that call returned (a RouteResult) or raised
    procs       \* concurrent solves on one graph: solve id |-> its local state

vars == <<risks, cvarOut, graph, lastCall, result, procs>>
cvarVars == <<risks, cvarOut>>
routerVars == <<graph, lastCall, result>>

----------------------------------------------------------------------------
(* Bounds of the model *)

MaxLen == 4      \* longest enumerated risk list
MaxRisk == 2     \* largest enumerated risk value (tenths)

----------------------------------------------------------------------------
(* Generic helpers *)

\* s[lo] + ... + s[hi], by halving (a 100-element list stays shallow)
RECURSIVE SumRange(_, _, _)
SumRange(s, lo, hi) ==
    IF lo > hi THEN 0
    ELSE IF lo = hi THEN s[lo]
    ELSE LET mid == (lo + hi) \div 2
         IN  SumRange(s, lo, mid) + SumRange(s, mid + 1, hi)

SumSeq(s) == SumRange(s, 1, Len(s))

SetMin(S) == CHOOSE x \in S : \A y \in S : x <= y

Range(s) == {s[i] : i \in DOMAIN s}

EmptyFn == [x \in {} |-> 0]

\* dict.get(key, default)
Get(data, key, default) == IF key \in DOMAIN data THEN data[key] ELSE default

SeqsUpTo(S, n) == UNION {[1..k -> S] : k \in 1..n}

\* Python's np.mean of a non-empty list, as an exact fraction
Mean(s) == [num |-> SumSeq(s), den |-> Len(s)]

\* comparisons of fractions with positive denominators
FracLe(a, b) == a.num * b.den <= b.num * a.den
FracLt(a, b) == a.num * b.den < b.num * a.den

----------------------------------------------------------------------------
(* CVaRRouter._calculate_cvar  (cvar_routing.py 487-506) *)

Count(s, v) == Cardinality({i \in DOMAIN s : s[i] = v})

\* the values of V in ascending order, each as often as it occurs in s
RECURSIVE AscendingFrom(_, _)
AscendingFrom(s, V) ==
    IF V = {} THEN <<>>
    ELSE LET m == SetMin(V)
         IN  [i \in 1..Count(s, m) |-> m] \o AscendingFrom(s, V \ {m})

\* sorted(risks): ascending (the values are integers, so the order of equal
\* elements is not observable)
Sorted(s) == AscendingFrom(s, Range(s))

\* int(alpha * len(sorted_risks)), alpha = a / 100
VarIndex(a, n) == (a * n) \div 100

CalculateCvarLowerTail(rs, a) ==
    LET sorted_risks == Sorted(rs)
        n            == Len(sorted_risks)
        var_index    == VarIndex(a, n)
        var          == IF var_index < n THEN sorted_risks[var_index + 1]
                                         ELSE sorted_risks[n]
        tail_risks   == SelectSeq(sorted_risks, LAMBDA r : r <= var)
    IN  IF tail_risks # <<>> THEN Mean(tail_risks) ELSE [num |-> var, den |-> 1]

CalculateCvarOffByOne(rs, a) ==
    LET sorted_risks == Sorted(rs)
        n            == Len(sorted_risks)
        var_index    == VarIndex(a, n)
        var          == IF var_index + 1 < n THEN sorted_risks[var_index + 2]
                                             ELSE sorted_risks[n]
        tail_risks   == SelectSeq(sorted_risks, LAMBDA r : r >= var)
    IN  IF tail_risks # <<>> THEN Mean(tail_risks) ELSE [num |-> var, den |-> 1]

\* Python indexes from 0, TLA+ from 1: sorted_risks[i] is sorted_risks[i + 1] here
CalculateCvar(rs, a) ==
    LET sorted_risks == Sorted(rs)
        n            == Len(sorted_risks)
        var_index    == VarIndex(a, n)
        var          == IF var_index < n THEN sorted_risks[var_index + 1]
                                         ELSE sorted_risks[n]
        tail_risks   == SelectSeq(sorted_risks, LAMBDA r : r >= var)
    IN  IF tail_risks # <<>> THEN Mean(tail_risks) ELSE [num |-> var, den |-> 1]

----------------------------------------------------------------------------
(* Inputs of the CVaR specification *)

\* confidence levels, in percent
Alphas == {5, 50, 90, 95, 99}

\* tests/test_cvar.py 28: [0.5] * 100
UniformRisks == [i \in 1..100 |-> 5]
\* tests/test_cvar.py 39: [0.1] * 95 + [1.0] * 5
ExtremeTailRisks == [i \in 1..100 |-> IF i <= 95 THEN 1 ELSE 10]
\* tests/test_routing.py 103: 0.1, 0.2, ..., 1.0
TenRisks == [i \in 1..10 |-> i]

RiskLists ==
    SeqsUpTo(0..MaxRisk, MaxLen) \cup {UniformRisks, ExtremeTailRisks, TenRisks}

InitCVaR ==
    /\ risks \in RiskLists
    /\ cvarOut = EmptyFn
    /\ graph = EmptyFn
    /\ lastCall = [op |-> "none"]
    /\ result = [kind |-> "none"]
    /\ procs = <<>>

\* one call router._calculate_cvar(risks, a / 100)
CallCalculateCvar ==
    \E a \in Alphas \ DOMAIN cvarOut :
        /\ cvarOut' = [x \in DOMAIN cvarOut \cup {a} |->
                          IF x = a THEN CalculateCvar(risks, a) ELSE cvarOut[x]]
        /\ UNCHANGED <<risks, routerVars, procs>>

NextCVaR == CallCalculateCvar

SpecCVaR == InitCVaR /\ [][NextCVaR]_vars

----------------------------------------------------------------------------
(* Claims about _calculate_cvar *)

\* the sum of s[i] over the indices i in I
SumAt(s, I) == SumSeq([i \in DOMAIN s |-> IF i \in I THEN s[i] ELSE 0])

\* the k-th order statistic (k from 0) of the unsorted list
OrderStat(s, k) ==
    CHOOSE v \in Range(s) :
        /\ Cardinality({i \in DOMAIN s : s[i] < v}) <= k
        /\ k < Cardinality({i \in DOMAIN s : s[i] <= v})

\* C1: for a non-empty list of non-negative risks and alpha in (0,1),
\* _calculate_cvar >= mean(risks) >= 0, and _calculate_cvar is
\* non-decreasing in alpha on the same list.
C1_CvarAboveMeanMonotone ==
    /\ \A a \in DOMAIN cvarOut :
          /\ FracLe(Mean(risks), cvarOut[a])
          /\ SumSeq(risks) >= 0
    /\ \A a1, a2 \in DOMAIN cvarOut :
          a1 <= a2 => FracLe(cvarOut[a1], cvarOut[a2])

C1_Witness ==
    \E a1, a2 \in DOMAIN cvarOut :
        /\ a1 < a2
        /\ FracLt(Mean(risks), cvarOut[a1])
        /\ FracLt(cvarOut[a1], cvarOut[a2])

\* C2: _calculate_cvar(risks, alpha) is the mean of the elements >= var, var
\* being the element of rank floor(alpha * S) of the list in ascending order
\* (the last one if that rank is out of range); a list of equal values c
\* yields exactly c; [0.1]*95 + [1.0]*5 yields more than 0.8 at alpha 0.95.
C2_CvarIsTailMean ==
    /\ \A a \in DOMAIN cvarOut :
          LET S    == Len(risks)
              k    == (a * S) \div 100
              var  == OrderStat(risks, IF k < S THEN k ELSE S - 1)
              tail == {i \in DOMAIN risks : risks[i] >= var}
          IN  /\ cvarOut[a].den = Cardinality(tail)
              /\ cvarOut[a].num = SumAt(risks, tail)
              /\ (\A i \in DOMAIN risks : risks[i] = risks[1])
                    => cvarOut[a].num = risks[1] * cvarOut[a].den
    /\ (risks = ExtremeTailRisks /\ 95 \in DOMAIN cvarOut)
          => cvarOut[95].num > 8 * cvarOut[95].den

C2_Witness ==
    /\ risks = ExtremeTailRisks
    /\ 95 \in DOMAIN cvarOut
    /\ cvarOut[95] = [num |-> 50, den |-> 5]

\* C3: on the ten pairwise distinct risks 0.1, ..., 1.0 of test_cvar_calculation,
\* _calculate_cvar at 0.95 is strictly above the mean and _calculate_cvar at
\* 0.99 is strictly above _calculate_cvar at 0.95.
C3_StrictOnDistinctRisks ==
    (risks = TenRisks /\ {95, 99} \subseteq DOMAIN cvarOut)
        => /\ FracLt(Mean(risks), cvarOut[95])
           /\ FracLt(cvarOut[95], cvarOut[99])

----------------------------------------------------------------------------
(* The routing graph: a networkx DiGraph, edge <<u, v>> |-> attributes *)

MaxNode == 3
Nodes == 0..MaxNode

HasEdge(g, u, v) == <<u, v>> \in DOMAIN g

\* dictionary assignment data[key] = value
SetKey(data, key, value) ==
    [k \in DOMAIN data \cup {key} |-> IF k = key THEN value ELSE data[k]]

Last(s) == s[Len(s)]

\* graph.edges(): the edges in adjacency order; the graphs of this model are
\* built node by node, neighbour by neighbour, in ascending order
RECURSIVE EdgeListOf(_)
EdgeListOf(E) ==
    IF E = {} THEN <<>>
    ELSE LET e == CHOOSE x \in E : \A y \in E :
                      x[1] < y[1] \/ (x[1] = y[1] /\ x[2] <= y[2])
         IN  <<e>> \o EdgeListOf(E \ {e})

\* the value 1 in the unit of an edge attribute
One(key) ==
    CASE key = "travel_time_hours" -> 100
      [] key = "risk_weight"       -> 200
      [] OTHER                     -> 1

----------------------------------------------------------------------------
(* nx.shortest_path(graph, origin, destination, weight=key): Dijkstra *)

\* networkx reads an edge weight as data.get(key, 1)
WeightFn(g, key) == [e \in DOMAIN g |-> Get(g[e], key, One(key))]

\* Dijkstra's labelling: dist maps the reached nodes to their tentative
\* distance, done is the set of settled nodes
RECURSIVE Dijkstra(_, _, _)
Dijkstra(w, dist, done) ==
    LET frontier == DOMAIN dist \ done
    IN  IF frontier = {} THEN dist
        ELSE LET u    == CHOOSE x \in frontier : \A y \in frontier : dist[x] <= dist[y]
                 outs == {v \in Nodes : <<u, v>> \in DOMAIN w /\ v \notin done}
                 relaxed ==
                     [v \in DOMAIN dist \cup outs |->
                         IF v \in outs /\ (v \notin DOMAIN dist
                                           \/ dist[u] + w[<<u, v>>] < dist[v])
                         THEN dist[u] + w[<<u, v>>]
                         ELSE dist[v]]
             IN  Dijkstra(w, relaxed, done \cup {u})

\* the loop-free node paths from Last(p) to d along the edges E, prefixed by p
RECURSIVE ExtendPath(_, _, _)
ExtendPath(E, p, d) ==
    IF Last(p) = d THEN {p}
    ELSE UNION {ExtendPath(E, Append(p, v), d) :
                   v \in {x \in Nodes : <<Last(p), x>> \in E /\ x \notin Range(p)}}

SimplePaths(E, o, d) == ExtendPath(E, <<o>>, d)

PathWeight(w, p) == SumSeq([i \in 1..(Len(p) - 1) |-> w[<<p[i], p[i + 1]>>]])

\* The node paths nx.shortest_path may return (which one among paths of equal
\* weight depends on the library's tie-breaking); the empty set stands for
\* nx.NetworkXNoPath.
ShortestPathsW(w, o, d) ==
    LET dist == Dijkstra(w, (o :> 0), {})
    IN  IF d \notin DOMAIN dist THEN {}
        ELSE {p \in SimplePaths(DOMAIN w, o, d) : PathWeight(w, p) = dist[d]}

ShortestPaths(g, o, d, key) == ShortestPathsW(WeightFn(g, key), o, d)

----------------------------------------------------------------------------
(* CVaRRouter._get_edge_risk  (cvar_routing.py 304-336) *)

\* denominators: detection_base 20, detection_mult 10, the visibility factor
\* (1 + v * m * 0.5) = (200 + v * m) / 200, patrol_presence 10, cargo_value 10
RiskScale == 20 * 10 * 200 * 10 * 10

\* a cap of 100 instead of 10
GetEdgeRiskCapHundred(g, edge, scenario, cargo_value) ==
    LET data             == g[edge]
        base_detection   == Get(data, "detection_base", 6)
        visibility       == Get(data, "visibility", 5)
        killzone_penalty == Get(data, "killzone_penalty", 1)
        partial == base_detection * scenario.detection_mult
                     * (200 + visibility * scenario.visibility_mult)
                     * scenario.patrol_presence
        factor  == killzone_penalty * cargo_value
        cap     == 100 * RiskScale
    IN  IF factor = 0 THEN 0
        ELSE IF partial > cap \div factor THEN cap
        ELSE partial * factor

\* min(weighted_risk, 10.0); the product is compared with the cap before the
\* last multiplication so that it stays within 32 bits
GetEdgeRisk(g, edge, scenario, cargo_value) ==
    LET data             == g[edge]
        base_detection   == Get(data, "detection_base", 6)
        visibility       == Get(data, "visibility", 5)
        killzone_penalty == Get(data, "killzone_penalty", 1)
        partial == base_detection * scenario.detection_mult
                     * (200 + visibility * scenario.visibility_mult)
                     * scenario.patrol_presence
        factor  == killzone_penalty * cargo_value
        cap     == 10 * RiskScale
    IN  IF factor = 0 THEN 0
        ELSE IF partial > cap \div factor THEN cap
        ELSE partial * factor

----------------------------------------------------------------------------
(* CVaRRouter._empty_result and _build_route_result *)

Zero == [num |-> 0, den |-> 1]

EmptyResultUntagged(method) ==
    [kind |-> "returned", path |-> <<>>, node_path |-> <<>>, time_minutes |-> 0,
     distance_km |-> 0, mean_risk |-> Zero, cvar_95 |-> Zero, cvar_99 |-> Zero,
     waypoints |-> <<>>, method |-> "",
     survival_probability |-> [kind |-> "zero"]]

\* cvar_routing.py 530-543
EmptyResult(method) ==
    [kind |-> "returned", path |-> <<>>, node_path |-> <<>>, time_minutes |-> 0,
     distance_km |-> 0, mean_risk |-> Zero, cvar_95 |-> Zero, cvar_99 |-> Zero,
     waypoints |-> <<>>, method |-> method,
     survival_probability |-> [kind |-> "zero"]]

\* the first edge of the path left out
PathEdgeIdxFromSecond(g, node_path) ==
    {i \in 2..(Len(node_path) - 1) : HasEdge(g, node_path[i], node_path[i + 1])}

\* the indices i of node_path whose edge (node_path[i], node_path[i+1]) exists
PathEdgeIdx(g, node_path) ==
    {i \in 1..(Len(node_path) - 1) : HasEdge(g, node_path[i], node_path[i + 1])}

\* sum of f[i] over the indices i in I
SumOver(f, I) == SumSeq([i \in DOMAIN f |-> IF i \in I THEN f[i] ELSE 0])

\* the coordinate path: the modelled edges carry no geometry, so each edge
\* contributes its end points (the first edge both, the others the far one);
\* a coordinate is named by its node
PathCoords(g, node_path) ==
    LET idx == PathEdgeIdx(g, node_path)
        pts == [i \in 1..(Len(node_path) - 1) |->
                   IF i \notin idx THEN <<>>
                   ELSE IF i = 1 THEN <<node_path[1], node_path[2]>>
                   ELSE <<node_path[i + 1]>>]
        Flat[i \in 0..(Len(node_path) - 1)] ==
            IF i = 0 THEN <<>> ELSE Flat[i - 1] \o pts[i]
    IN  IF Len(node_path) = 0 THEN <<>> ELSE Flat[Len(node_path) - 1]

\* the last node left out unless the interval reaches it
WaypointsWithoutLast(node_path, total_time) ==
    LET n        == Len(node_path)
        interval == IF n \div 10 > 1 THEN n \div 10 ELSE 1
        picked   == {i \in 0..(n - 1) : i = 0 \/ i % interval = 0}
        Build[i \in 0..n] ==
            IF i = 0 THEN <<>>
            ELSE IF (i - 1) \notin picked THEN Build[i - 1]
            ELSE Append(Build[i - 1],
                        [node      |-> node_path[i],
                         name      |-> IF i - 1 = 0 THEN <<"Origin">>
                                       ELSE IF i - 1 = n - 1 THEN <<"Destination">>
                                       ELSE <<"Waypoint", Len(Build[i - 1])>>,
                         eta_hours |-> total_time])
    IN  Build[n]

\* cvar_routing.py 438-457; Python index i is i + 1 here
Waypoints(node_path, total_time) ==
    LET n        == Len(node_path)
        interval == IF n \div 10 > 1 THEN n \div 10 ELSE 1
        picked   == {i \in 0..(n - 1) : i = 0 \/ i = n - 1 \/ i % interval = 0}
        Build[i \in 0..n] ==
            IF i = 0 THEN <<>>
            ELSE IF (i - 1) \notin picked THEN Build[i - 1]
            ELSE Append(Build[i - 1],
                        [node      |-> node_path[i],
                         name      |-> IF i - 1 = 0 THEN <<"Origin">>
                                       ELSE IF i - 1 = n - 1 THEN <<"Destination">>
                                       ELSE <<"Waypoint", Len(Build[i - 1])>>,
                         eta_hours |-> total_time])
    IN  Build[n]

\* cvar_routing.py 376-485
BuildRouteResult(g, node_path, scenarios, cargo_value, method) ==
    LET idx            == PathEdgeIdx(g, node_path)
        edge(i)        == <<node_path[i], node_path[i + 1]>>
        steps          == 1..(Len(node_path) - 1)
        total_time     == SumOver([i \in steps |->
                              IF i \in idx THEN Get(g[edge(i)], "travel_time_hours", 0) ELSE 0], idx)
        total_distance == SumOver([i \in steps |->
                              IF i \in idx THEN Get(g[edge(i)], "distance_km", 0) ELSE 0], idx)
        scenario_risks == [s \in DOMAIN scenarios |->
                              SumOver([i \in steps |->
                                  IF i \in idx THEN GetEdgeRisk(g, edge(i), scenarios[s], cargo_value)
                                  ELSE 0], idx)]
        cvar_95        == CalculateCvar(scenario_risks, 95)
    IN  [kind |-> "returned",
         path |-> PathCoords(g, node_path),
         node_path |-> node_path,
         time_minutes |-> total_time * 60,
         distance_km |-> total_distance,
         mean_risk |-> Mean(scenario_risks),
         cvar_95 |-> cvar_95,
         cvar_99 |-> CalculateCvar(scenario_risks, 99),
         waypoints |-> Waypoints(node_path, total_time),
         method |-> method,
         \* math.exp(-0.1 * cvar_95), kept by its argument
         survival_probability |-> [kind |-> "exp", minus_tenth_of |-> cvar_95]]

Raised(exc) == [kind |-> "raised", exc |-> exc]

----------------------------------------------------------------------------
(* CVaRRouter._edges_to_path  (cvar_routing.py 338-374) *)

\* {u: v for u, v in edges}: a later edge of the list replaces an earlier one
\* with the same tail
EdgeDict(edges) ==
    [u \in {edges[i][1] : i \in DOMAIN edges} |->
        LET i == CHOOSE j \in DOMAIN edges :
                     /\ edges[j][1] = u
                     /\ \A k \in DOMAIN edges : edges[k][1] = u => k <= j
        IN  edges[i][2]]

\* the walk without the break at the destination
RECURSIVE WalkEdgesNoBreak(_, _, _, _)
WalkEdgesNoBreak(edge_dict, path, destination, k) ==
    IF k = 0 THEN path
    ELSE IF Last(path) \notin DOMAIN edge_dict THEN <<>>
    ELSE WalkEdgesNoBreak(edge_dict, Append(path, edge_dict[Last(path)]), destination, k - 1)

\* the for loop, k iterations left; <<>> is the early "return []"
RECURSIVE WalkEdges(_, _, _, _)
WalkEdges(edge_dict, path, destination, k) ==
    IF k = 0 THEN path
    ELSE IF Last(path) = destination THEN path
    ELSE IF Last(path) \notin DOMAIN edge_dict THEN <<>>
    ELSE WalkEdges(edge_dict, Append(path, edge_dict[Last(path)]), destination, k - 1)

EdgesToPathNoCheck(edges, origin, destination) ==
    IF edges = <<>> THEN <<>>
    ELSE WalkEdges(EdgeDict(edges), <<origin>>, destination, Len(edges) + 1)

EdgesToPath(edges, origin, destination) ==
    IF edges = <<>> THEN <<>>
    ELSE LET path == WalkEdges(EdgeDict(edges), <<origin>>, destination, Len(edges) + 1)
         IN  IF path # <<>> /\ Last(path) = destination THEN path ELSE <<>>

----------------------------------------------------------------------------
(* The mixed-integer program of CVaRRouter.optimize  (cvar_routing.py 110-177) *)

OutFlow(sel, n) == Cardinality({e \in sel : e[1] = n})
InFlow(sel, n)  == Cardinality({e \in sel : e[2] = n})

\* flow_conservation_rule: the origin branch is tested first
FlowConservation(sel, origin, destination, n) ==
    IF n = origin THEN OutFlow(sel, n) - InFlow(sel, n) = 1
    ELSE IF n = destination THEN InFlow(sel, n) - OutFlow(sel, n) = 1
    ELSE InFlow(sel, n) = OutFlow(sel, n)

\* the binary assignments x (as the set of edges with x_e = 1) that satisfy
\* every flow constraint; eta and z are free and non-negative, so the CVaR
\* constraints exclude none of them
FeasibleSelections(g, origin, destination) ==
    {sel \in SUBSET DOMAIN g :
        \A n \in Nodes : FlowConservation(sel, origin, destination, n)}

\* For a node without any incident edge both sums of the rule are the Python
\* integer 0 and the rule returns a Python bool instead of an expression
TrivialFlowRule(g) ==
    \E n \in Nodes : \A e \in DOMAIN g : e[1] # n /\ e[2] # n

\* What model construction and solver_instance.solve can do:
\*   build_error   Constraint(...) rejects the bool of a trivial rule (outside
\*                 the try block); whether it does is the library's choice
\*   solve_raised  SolverFactory/solve raises (solver missing, solver error)
\*   no_solution   solve returns with no value loaded into x (infeasible model,
\*                 or time limit reached before any incumbent)
\*   solution      solve returns a feasible x: the optimum, or on the time
\*                 limit the best incumbent, which can be any feasible point
SolverOutcomes(g, origin, destination) ==
    (IF TrivialFlowRule(g) THEN {[kind |-> "build_error", sel |-> {}]} ELSE {})
    \cup {[kind |-> "solve_raised", sel |-> {}], [kind |-> "no_solution", sel |-> {}]}
    \cup {[kind |-> "solution", sel |-> s] : s \in FeasibleSelections(g, origin, destination)}

----------------------------------------------------------------------------
(* CVaRRouter._generate_scenarios and the inputs of a call *)

NumScenarios == 2

\* uniform(0.7, 1.3), uniform(0.8, 1.2), choice([0.8, 1.0, 1.2, 1.5]): the
\* model draws among the corners of the ranges
ScenarioSet ==
    {[visibility_mult |-> 7,  detection_mult |-> 8,  patrol_presence |-> 8],
     [visibility_mult |-> 13, detection_mult |-> 12, patrol_presence |-> 15]}

GenerateScenarios == [1..NumScenarios -> ScenarioSet]

CargoValues == {2, 7}

----------------------------------------------------------------------------
(* The four routing modes, as functions of the graph and the drawn inputs *)

\* the result of a Dijkstra mode once nx.shortest_path has answered:
\* paths = {} is NetworkXNoPath
DijkstraResults(g, paths, cargo_value, method) ==
    IF paths = {} THEN {[res |-> EmptyResult(method), scen |-> <<>>]}
    ELSE {[res |-> BuildRouteResult(g, p, sc, cargo_value, method), scen |-> sc] :
             p \in paths, sc \in GenerateScenarios}

\* cvar_routing.py 197-222
ShortestDistance(g, o, d) ==
    DijkstraResults(g, ShortestPaths(g, o, d, "distance_km"), 7, "shortest_distance")

\* cvar_routing.py 224-247
ShortestTime(g, o, d) ==
    DijkstraResults(g, ShortestPaths(g, o, d, "travel_time_hours"), 7, "shortest_time")

RiskWeightNoPenalty(data, cargo_value) ==
    Get(data, "detection_base", 6) * cargo_value

\* cvar_routing.py 269-270: detection_base * cargo_value / 10.0 * killzone_penalty
RiskWeight(data, cargo_value) ==
    Get(data, "detection_base", 6) * cargo_value * Get(data, "killzone_penalty", 1)

\* cvar_routing.py 268-271: the loop that stores risk_weight on every edge
WithRiskWeights(g, cargo_value) ==
    [e \in DOMAIN g |-> SetKey(g[e], "risk_weight", RiskWeight(g[e], cargo_value))]

\* cvar_routing.py 273-283, on the graph the loop has written
MeanRisk(g, o, d, cargo_value) ==
    DijkstraResults(WithRiskWeights(g, cargo_value),
                    ShortestPaths(WithRiskWeights(g, cargo_value), o, d, "risk_weight"),
                    cargo_value, "mean_risk")

\* cvar_routing.py 187: the edges with value(x) > 0.5, in the order of edges
SelectedEdges(g, sel) == SelectSeq(EdgeListOf(DOMAIN g), LAMBDA e : e \in sel)

\* cvar_routing.py 172-195, for one outcome of construction and solve
Optimize(g, o, d, cargo_value, outcome) ==
    IF outcome.kind = "build_error" THEN
        {[res |-> Raised("ValueError"), scen |-> <<>>]}
    ELSE IF outcome.kind = "solve_raised" THEN
        ShortestTime(g, o, d)
    ELSE IF outcome.kind = "no_solution" THEN
        \* value(model.x[i]) of a variable without a value raises, after the try
        {[res |-> Raised("ValueError"), scen |-> <<>>]}
    ELSE
        LET node_path == EdgesToPath(SelectedEdges(g, outcome.sel), o, d)
        IN  IF node_path = <<>> THEN ShortestTime(g, o, d)
            ELSE {[res |-> BuildRouteResult(g, node_path, sc, cargo_value, "cvar"),
                   scen |-> sc] : sc \in GenerateScenarios}

----------------------------------------------------------------------------
(* The graphs the router is constructed on *)

Attrs(distance_km, travel_time_hours, detection_base) ==
    ("distance_km" :> distance_km) @@ ("travel_time_hours" :> travel_time_hours)
      @@ ("detection_base" :> detection_base)

Enriched(distance_km, travel_time_hours, detection_base, visibility, killzone_penalty) ==
    Attrs(distance_km, travel_time_hours, detection_base)
      @@ ("visibility" :> visibility) @@ ("killzone_penalty" :> killzone_penalty)

\* tests/test_routing.py 9-26 (road_type, which no routing mode reads, left out)
SimpleGraph ==
    (<<0, 1>> :> Attrs(5, 10, 4)) @@ (<<1, 2>> :> Attrs(6, 12, 10))
      @@ (<<2, 3>> :> Attrs(4, 8, 6)) @@ (<<0, 2>> :> Attrs(12, 25, 3))

\* An enriched graph: 0->1->3 is the shortest, 0->2->3 the fastest; 1->3 lies
\* in a kill zone; 2->1 joins two coincident nodes; 0->3 is a slow direct
\* track; 2->3 is a two-way road
FullGraph ==
    (<<0, 1>> :> Enriched(2, 4, 2, 5, 1)) @@ (<<1, 3>> :> Enriched(2, 4, 2, 2, 1000))
      @@ (<<0, 2>> :> Enriched(3, 3, 8, 8, 1)) @@ (<<2, 3>> :> Enriched(3, 3, 8, 0, 1))
      @@ (<<1, 2>> :> Enriched(5, 9, 0, 5, 1)) @@ (<<2, 1>> :> Enriched(0, 0, 0, 5, 1))
      @@ (<<0, 3>> :> Enriched(9, 20, 18, 10, 1)) @@ (<<3, 2>> :> Enriched(3, 3, 8, 0, 1))

Removable == {<<0, 1>>, <<0, 2>>, <<0, 3>>, <<1, 2>>}

Restrict(g, E) == [e \in E |-> g[e]]

Graphs ==
    {SimpleGraph} \cup {Restrict(FullGraph, DOMAIN FullGraph \ R) : R \in SUBSET Removable}

----------------------------------------------------------------------------
(* The router specification: one action per public routing mode *)

Init ==
    /\ graph \in Graphs
    /\ lastCall = [op |-> "none"]
    /\ result = [kind |-> "none"]
    /\ procs = <<>>
    /\ risks = <<>>
    /\ cvarOut = EmptyFn

Call(op, o, d, cargo_value, outcome, scen) ==
    [op |-> op, origin |-> o, destination |-> d, cargo_value |-> cargo_value,
     outcome |-> outcome, scenarios |-> scen]

NoSolver == [kind |-> "none", sel |-> {}]

\* the router is synchronous: a call starts when no call is in progress
Idle == lastCall.op = "none"

CallShortestDistance ==
    /\ Idle
    /\ \E o \in Nodes, d \in Nodes :
           \E r \in ShortestDistance(graph, o, d) :
               /\ result' = r.res
               /\ lastCall' = Call("shortest_distance", o, d, 7, NoSolver, r.scen)
               /\ UNCHANGED <<graph, cvarVars, procs>>

CallShortestTime ==
    /\ Idle
    /\ \E o \in Nodes, d \in Nodes :
           \E r \in ShortestTime(graph, o, d) :
               /\ result' = r.res
               /\ lastCall' = Call("shortest_time", o, d, 7, NoSolver, r.scen)
               /\ UNCHANGED <<graph, cvarVars, procs>>

CallMeanRisk ==
    /\ Idle
    /\ \E o \in Nodes, d \in Nodes, c \in CargoValues :
           \E r \in MeanRisk(graph, o, d, c) :
               /\ graph' = WithRiskWeights(graph, c)
               /\ result' = r.res
               /\ lastCall' = Call("mean_risk", o, d, c, NoSolver, r.scen)
               /\ UNCHANGED <<cvarVars, procs>>

CallOptimize ==
    /\ Idle
    /\ \E o \in Nodes, d \in Nodes, c \in CargoValues :
           \E outcome \in SolverOutcomes(graph, o, d) :
               \E r \in Optimize(graph, o, d, c, outcome) :
                   /\ result' = r.res
                   /\ lastCall' = Call("optimize", o, d, c, outcome, r.scen)
                   /\ UNCHANGED <<graph, cvarVars, procs>>

\* the caller takes the result (or handles the exception); the graph stays as
\* the call left it
ReturnToCaller ==
    /\ ~Idle
    /\ lastCall' = [op |-> "none"]
    /\ result' = [kind |-> "none"]
    /\ UNCHANGED <<graph, cvarVars, procs>>

Next ==
    \/ CallShortestDistance
    \/ CallShortestTime
    \/ CallMeanRisk
    \/ CallOptimize
    \/ ReturnToCaller

Spec == Init /\ [][Next]_vars

----------------------------------------------------------------------------
(* Claims about the routing modes *)

DijkstraModes == {"shortest_distance", "shortest_time", "mean_risk"}

Returned == result.kind = "returned"

\* the graph without the attribute key
Without(g, key) == [e \in DOMAIN g |-> [k \in DOMAIN g[e] \ {key} |-> g[e][k]]]

\* C4: every non-empty RouteResult returned by shortest_distance,
\* shortest_time, mean_risk or optimize called with (o, d) has a node path
\* that starts at o, ends at d and whose consecutive nodes are joined by an
\* edge of the router's graph.
C4_PathIsWalkFromOriginToDestination ==
    (Returned /\ result.node_path # <<>>) =>
        LET p == result.node_path
        IN  /\ p[1] = lastCall.origin
            /\ p[Len(p)] = lastCall.destination
            /\ \A i \in 1..(Len(p) - 1) : <<p[i], p[i + 1]>> \in DOMAIN graph

C4_Witness ==
    /\ Returned
    /\ lastCall.op = "optimize"
    /\ result.method = "cvar"
    /\ Len(result.node_path) = 4
    /\ Cardinality(lastCall.outcome.sel) > 3

\* the edge weight each Dijkstra mode is specified to minimise
SpecifiedWeight(op, data, cargo_value) ==
    CASE op = "shortest_distance" -> data["distance_km"]
      [] op = "shortest_time"     -> data["travel_time_hours"]
      [] op = "mean_risk"         ->
             data["detection_base"] * cargo_value
               * (IF "killzone_penalty" \in DOMAIN data THEN data["killzone_penalty"] ELSE 1)

SpecifiedPathWeight(op, g, cargo_value, p) ==
    SumSeq([i \in 1..(Len(p) - 1) |->
               SpecifiedWeight(op, g[<<p[i], p[i + 1]>>], cargo_value)])

\* C5: whenever an o->d path exists each Dijkstra mode returns an o->d path of
\* minimal total weight for its own edge weight (distance_km, travel_time_hours,
\* detection_base * cargo_value / 10 * killzone_penalty); on the 4-node test
\* graph shortest_distance(0, 3) and shortest_time(0, 3) both return
\* 0->1->2->3 with distance_km = 15 and time_minutes = 18.
C5_DijkstraModesMinimiseOwnWeight ==
    (lastCall.op \in DijkstraModes) =>
        LET o     == lastCall.origin
            d     == lastCall.destination
            paths == SimplePaths(DOMAIN graph, o, d)
            W(p)  == SpecifiedPathWeight(lastCall.op, graph, lastCall.cargo_value, p)
        IN  /\ paths # {} =>
                /\ Returned
                /\ result.node_path \in paths
                /\ \A q \in paths : W(result.node_path) <= W(q)
            /\ (Without(graph, "risk_weight") = SimpleGraph /\ o = 0 /\ d = 3
                  /\ lastCall.op \in {"shortest_distance", "shortest_time"})
                => /\ result.node_path = <<0, 1, 2, 3>>
                   /\ result.distance_km = 15
                   /\ result.time_minutes = 1800

C5_Witness ==
    /\ lastCall.op = "mean_risk"
    /\ Returned
    /\ result.node_path = <<0, 1, 2, 3>>
    /\ <<0, 1, 3>> \in SimplePaths(DOMAIN graph, 0, 3)
    /\ <<0, 2, 3>> \in SimplePaths(DOMAIN graph, 0, 3)

\* C6: the attributed graph is read-only during a solve: after any call to
\* shortest_distance, shortest_time, mean_risk or optimize every edge has the
\* attribute keys and values it had before the call.
C6_GraphReadOnlyDuringSolve == [][graph' = graph]_vars

\* C8: when origin and destination are disconnected, shortest_distance,
\* shortest_time and mean_risk return an empty RouteResult: path, node_path
\* and waypoints empty, the method tag of the called mode, every numeric
\* field zero.
C8_NoPathGivesTaggedEmptyResult ==
    (lastCall.op \in DijkstraModes
       /\ SimplePaths(DOMAIN graph, lastCall.origin, lastCall.destination) = {}) =>
        /\ Returned
        /\ result.path = <<>> /\ result.node_path = <<>> /\ result.waypoints = <<>>
        /\ result.method = lastCall.op
        /\ result.time_minutes = 0 /\ result.distance_km = 0
        /\ result.mean_risk.num = 0 /\ result.cvar_95.num = 0 /\ result.cvar_99.num = 0
        /\ result.survival_probability.kind = "zero"

C8_Witness ==
    /\ lastCall.op = "mean_risk"
    /\ lastCall.origin = 3 /\ lastCall.destination = 0
    /\ Returned
    /\ result.node_path = <<>>
    /\ result.method = "mean_risk"

\* C9: on any solver failure or infeasibility (solver unavailable, solver
\* raises, time-out without usable incumbent, infeasible model) optimize does
\* not raise: it returns the result of shortest_time, tagged 'shortest_time';
\* the tag is 'cvar' only when a path was rebuilt from the selected edges.
C9_SolverFailureFallsBackToShortestTime ==
    (lastCall.op = "optimize") =>
        /\ lastCall.outcome.kind \in {"solve_raised", "no_solution"}
              => (Returned /\ result.method = "shortest_time")
        /\ (Returned /\ result.method = "cvar")
              => /\ lastCall.outcome.kind = "solution"
                 /\ result.node_path # <<>>

\* the edges of a node path
PathEdges(p) == {<<p[i], p[i + 1]>> : i \in 1..(Len(p) - 1)}

\* C10: whenever the edge set selected by the MILP is not exactly one
\* contiguous origin->destination path (in particular when it contains a
\* cycle disjoint from the origin->destination walk) optimize falls back to
\* shortest_time instead of returning a 'cvar' result.
C10_NonPathSelectionFallsBack ==
    (lastCall.op = "optimize" /\ lastCall.outcome.kind = "solution"
       /\ ~ \E p \in SimplePaths(DOMAIN graph, lastCall.origin, lastCall.destination) :
               PathEdges(p) = lastCall.outcome.sel)
        => (Returned /\ result.method = "shortest_time")

----------------------------------------------------------------------------
(* StackelbergRouter._generate_k_routes  (game_theory.py 92-164), by node paths *)

\* the test on the node path left out
AppendAlways(routes, path) == Append(routes, path)

\* "if x.node_path not in [r.node_path for r in routes]: routes.append(x)"
AppendNew(routes, node_path) ==
    IF node_path \in Range(routes) THEN routes ELSE Append(routes, node_path)

\* the node path of the RouteResult of a Dijkstra mode: <<>> for _empty_result
PathChoices(paths) == IF paths = {} THEN {<<>>} ELSE paths

\* game_theory.py 129-133: the edges used by any route
PenaltyEdges(routes) ==
    UNION {{<<routes[r][i], routes[r][i + 1]>> : i \in 1..(Len(routes[r]) - 1)} :
              r \in DOMAIN routes}

\* game_theory.py 137: temp_penalty = 100.0 (hours)
TempPenalty == 100 * 100

\* game_theory.py 135-137
WithPenalties(g, penalty_edges) ==
    [e \in DOMAIN g |->
        IF e \in penalty_edges THEN SetKey(g[e], "temp_penalty", TempPenalty) ELSE g[e]]

\* del data[key]
DelKey(data, key) == [k \in DOMAIN data \ {key} |-> data[k]]

\* game_theory.py 141:
\*   lambda u, v, d: d.get("travel_time_hours", 1.0) + d.get("temp_penalty", 0.0)
PenalizedTime(g) ==
    [e \in DOMAIN g |-> Get(g[e], "travel_time_hours", 100) + Get(g[e], "temp_penalty", 0)]

\* routes[:k]
Take(s, k) == SubSeq(s, 1, IF Len(s) < k THEN Len(s) ELSE k)

\* the node paths optimize can return on g, and whether it can raise
OptimizeNodePaths(g, o, d, cargo_value) ==
    {r.res.node_path :
        r \in {x \in UNION {Optimize(g, o, d, cargo_value, outcome) :
                               outcome \in SolverOutcomes(g, o, d)} :
                  x.res.kind = "returned"}}

OptimizeCanRaise(g, o, d) ==
    \E outcome \in SolverOutcomes(g, o, d) : outcome.kind \in {"build_error", "no_solution"}

\* game_theory.py 127-160: the padding loop run alone on g, from routes on;
\* the set of route lists it can end with
RECURSIVE PadRuns(_, _, _, _, _)
PadRuns(g, routes, o, d, k) ==
    IF Len(routes) >= k THEN {routes}
    ELSE LET paths == ShortestPathsW(PenalizedTime(WithPenalties(g, PenaltyEdges(routes))), o, d)
         IN  IF paths = {} THEN {routes}
             ELSE UNION {IF p \in Range(routes) THEN {routes}
                         ELSE PadRuns(g, Append(routes, p), o, d, k) : p \in paths}

\* _generate_k_routes run alone on g: every (returned node paths, graph left)
GenerateKRoutesAlone(g, o, d, cargo_value, k) ==
    LET gw == WithRiskWeights(g, cargo_value)
    IN  (IF OptimizeCanRaise(g, o, d)
         THEN {[out |-> [kind |-> "raised", paths |-> <<>>], graph |-> g]} ELSE {})
        \cup
        {[out |-> [kind |-> "returned", paths |-> Take(final, k)], graph |-> gw] :
            final \in UNION {
                PadRuns(gw, AppendNew(AppendNew(AppendNew(<<b>>, f), s), m), o, d, k) :
                    b \in OptimizeNodePaths(g, o, d, cargo_value),
                    f \in PathChoices(ShortestPaths(g, o, d, "travel_time_hours")),
                    s \in PathChoices(ShortestPaths(g, o, d, "distance_km")),
                    m \in PathChoices(ShortestPaths(gw, o, d, "risk_weight"))}}

\* mean_risk run alone on g
MeanRiskAlone(g, o, d, cargo_value) ==
    {[out |-> [kind |-> "returned", paths |-> <<r.res.node_path>>],
      graph |-> WithRiskWeights(g, cargo_value)] : r \in MeanRisk(g, o, d, cargo_value)}

----------------------------------------------------------------------------
(* Two solves running concurrently on one graph.  Each solve advances by one
   statement of its code at a time: one iteration of a loop over edges, or
   one call of a routine that only reads the graph. *)

ProcIds == {1, 2}

\* constants.py 224: the default of k_routes (game_theory.py 39)
GAME_NUM_ROUTES == 5

Pending == [kind |-> "pending", paths |-> <<>>]

StartProc(op, cargo_value) ==
    [op |-> op, origin |-> 0, destination |-> 3, cargo_value |-> cargo_value,
     k |-> GAME_NUM_ROUTES,
     pc |-> IF op = "mean_risk" THEN "mr_write" ELSE "optimize",
     i |-> 1, routes |-> <<>>, penalty_edges |-> {}, todo |-> {},
     diverse_path |-> <<>>, out |-> Pending]

StartProcs ==
    {StartProc(op, c) : op \in {"mean_risk", "generate_k_routes"}, c \in CargoValues}

\* the graph of the routing tests (test_routing.py 9-26)
ConcGraphs == {SimpleGraph}

InitConc ==
    /\ graph \in ConcGraphs
    /\ procs \in [ProcIds -> StartProcs]
    /\ lastCall = [op |-> "none"]
    /\ result = [kind |-> "none"]
    /\ risks = <<>>
    /\ cvarOut = EmptyFn

Set(p, fields) ==
    procs' = [procs EXCEPT ![p] = [f \in DOMAIN @ |-> IF f \in DOMAIN fields THEN fields[f] ELSE @[f]]]

Finish(p, out) == Set(p, ("pc" :> "done") @@ ("out" :> out))

ConcFrame == UNCHANGED <<cvarVars, lastCall, result>>

\* cvar_routing.py 268-271: one iteration of the risk_weight loop
MrWrite(p) ==
    LET me    == procs[p]
        edges == EdgeListOf(DOMAIN graph)
    IN  /\ me.pc = "mr_write"
        /\ IF me.i <= Len(edges)
           THEN /\ graph' = [graph EXCEPT ![edges[me.i]] =
                                SetKey(@, "risk_weight", RiskWeight(@, me.cargo_value))]
                /\ Set(p, ("i" :> me.i + 1))
           ELSE /\ Set(p, ("pc" :> "mr_path"))
                /\ UNCHANGED graph
        /\ ConcFrame

\* cvar_routing.py 273-283: the shortest path by risk_weight, on the graph as
\* it is now; in _generate_k_routes the route joins the portfolio (123-125)
MrPath(p) ==
    LET me == procs[p]
    IN  /\ me.pc = "mr_path"
        /\ \E path \in PathChoices(ShortestPaths(graph, me.origin, me.destination, "risk_weight")) :
               IF me.op = "mean_risk"
               THEN Finish(p, [kind |-> "returned", paths |-> <<path>>])
               ELSE Set(p, ("pc" :> "pad_test") @@ ("routes" :> AppendNew(me.routes, path)))
        /\ UNCHANGED graph
        /\ ConcFrame

\* game_theory.py 112-113
KrOptimize(p) ==
    LET me == procs[p]
    IN  /\ me.pc = "optimize"
        /\ \/ /\ OptimizeCanRaise(graph, me.origin, me.destination)
              /\ Finish(p, [kind |-> "raised", paths |-> <<>>])
           \/ \E b \in OptimizeNodePaths(graph, me.origin, me.destination, me.cargo_value) :
                  Set(p, ("pc" :> "fastest") @@ ("routes" :> <<b>>))
        /\ UNCHANGED graph
        /\ ConcFrame

\* game_theory.py 115-117
KrFastest(p) ==
    LET me == procs[p]
    IN  /\ me.pc = "fastest"
        /\ \E f \in PathChoices(ShortestPaths(graph, me.origin, me.destination, "travel_time_hours")) :
               Set(p, ("pc" :> "shortest") @@ ("routes" :> AppendNew(me.routes, f)))
        /\ UNCHANGED graph
        /\ ConcFrame

\* game_theory.py 119-121, then the entry of mean_risk (123)
KrShortest(p) ==
    LET me == procs[p]
    IN  /\ me.pc = "shortest"
        /\ \E s \in PathChoices(ShortestPaths(graph, me.origin, me.destination, "distance_km")) :
               Set(p, ("pc" :> "mr_write") @@ ("i" :> 1) @@ ("routes" :> AppendNew(me.routes, s)))
        /\ UNCHANGED graph
        /\ ConcFrame

\* game_theory.py 127-133 and 164: the loop test, penalty_edges, or the return
PadTest(p) ==
    LET me == procs[p]
    IN  /\ me.pc = "pad_test"
        /\ IF Len(me.routes) < me.k
           THEN Set(p, ("pc" :> "pad_set") @@ ("penalty_edges" :> PenaltyEdges(me.routes))
                         @@ ("todo" :> PenaltyEdges(me.routes)))
           ELSE Finish(p, [kind |-> "returned", paths |-> Take(me.routes, me.k)])
        /\ UNCHANGED graph
        /\ ConcFrame

\* game_theory.py 135-137: one iteration of the loop that sets temp_penalty
PadSet(p) ==
    LET me == procs[p]
    IN  /\ me.pc = "pad_set"
        /\ IF me.todo = {}
           THEN /\ Set(p, ("pc" :> "pad_path"))
                /\ UNCHANGED graph
           ELSE \E e \in me.todo :
                  /\ graph' = IF e \in DOMAIN graph
                              THEN [graph EXCEPT ![e] = SetKey(@, "temp_penalty", TempPenalty)]
                              ELSE graph
                  /\ Set(p, ("todo" :> me.todo \ {e}))
        /\ ConcFrame

\* game_theory.py 139-142 (NetworkXNoPath is caught at 156-158: break, return)
PadPath(p) ==
    LET me    == procs[p]
        paths == ShortestPathsW(PenalizedTime(graph), me.origin, me.destination)
    IN  /\ me.pc = "pad_path"
        /\ IF paths = {}
           THEN Finish(p, [kind |-> "returned", paths |-> Take(me.routes, me.k)])
           ELSE \E path \in paths :
                  Set(p, ("pc" :> "pad_del") @@ ("diverse_path" :> path)
                           @@ ("todo" :> me.penalty_edges))
        /\ UNCHANGED graph
        /\ ConcFrame

\* PadDel without the del statement
PadDelKeepsPenalty(p) ==
    LET me == procs[p]
    IN  /\ me.pc = "pad_del"
        /\ Set(p, ("pc" :> "pad_check"))
        /\ UNCHANGED graph
        /\ ConcFrame

\* game_theory.py 144-146: one iteration of the loop that deletes temp_penalty
PadDel(p) ==
    LET me == procs[p]
    IN  /\ me.pc = "pad_del"
        /\ IF me.todo = {}
           THEN /\ Set(p, ("pc" :> "pad_check"))
                /\ UNCHANGED graph
           ELSE \E e \in me.todo :
                  /\ graph' = IF e \in DOMAIN graph /\ "temp_penalty" \in DOMAIN graph[e]
                              THEN [graph EXCEPT ![e] = DelKey(@, "temp_penalty")]
                              ELSE graph
                  /\ Set(p, ("todo" :> me.todo \ {e}))
        /\ ConcFrame

\* PadCheck without the break on a duplicate route
PadCheckNoBreak(p) ==
    LET me == procs[p]
    IN  /\ me.pc = "pad_check"
        /\ IF me.diverse_path \notin Range(me.routes)
           THEN Set(p, ("pc" :> "pad_test") @@ ("routes" :> Append(me.routes, me.diverse_path)))
           ELSE Set(p, ("pc" :> "pad_test"))
        /\ UNCHANGED graph
        /\ ConcFrame

\* game_theory.py 148-156: a new node path joins the portfolio, a known one
\* ends the loop
PadCheck(p) ==
    LET me == procs[p]
    IN  /\ me.pc = "pad_check"
        /\ IF me.diverse_path \notin Range(me.routes)
           THEN Set(p, ("pc" :> "pad_test") @@ ("routes" :> Append(me.routes, me.diverse_path)))
           ELSE Finish(p, [kind |-> "returned", paths |-> Take(me.routes, me.k)])
        /\ UNCHANGED graph
        /\ ConcFrame

NextConc ==
    \E p \in ProcIds :
        \/ MrWrite(p)
        \/ MrPath(p)
        \/ KrOptimize(p)
        \/ KrFastest(p)
        \/ KrShortest(p)
        \/ PadTest(p)
        \/ PadSet(p)
        \/ PadPath(p)
        \/ PadDel(p)
        \/ PadCheck(p)

SpecConc == InitConc /\ [][NextConc]_vars

----------------------------------------------------------------------------
(* Claim about concurrent solves *)

\* what solve p can return, and the graph it leaves, when run alone on g
Alone(me, g) ==
    IF me.op = "mean_risk"
    THEN MeanRiskAlone(g, me.origin, me.destination, me.cargo_value)
    ELSE GenerateKRoutesAlone(g, me.origin, me.destination, me.cargo_value, me.k)

\* C7: two solves running concurrently on the same attributed graph (calls
\* among mean_risk, with possibly different cargo_value, and
\* _generate_k_routes) each return the node paths they would return when run
\* alone on that graph, and leave the graph as a sequential execution would.
C7_ConcurrentSolvesAreSerializable ==
    (\A p \in ProcIds : procs[p].pc = "done") =>
        LET g0 == Without(Without(graph, "risk_weight"), "temp_penalty")
        IN  \E first \in ProcIds : \E second \in ProcIds \ {first} :
                \E r1 \in Alone(procs[first], g0) :
                    /\ r1.out = procs[first].out
                    /\ \E r2 \in Alone(procs[second], r1.graph) :
                           /\ r2.out = procs[second].out
                           /\ r2.graph = graph

----------------------------------------------------------------------------
(* One call of _generate_k_routes at a time: solve 1 runs alone, on any of
   the graphs, between any two nodes, for k routes. *)

KChoices == {1, 3, GAME_NUM_ROUTES}

StartSolve(op, o, d, cargo_value, k) ==
    [StartProc(op, cargo_value) EXCEPT !.origin = o, !.destination = d, !.k = k]

\* a solve that is never started
NoSolve == [StartProc("mean_risk", 2) EXCEPT !.pc = "done"]

InitKRoutes ==
    /\ graph \in Graphs
    /\ \E o \in Nodes, d \in Nodes, c \in CargoValues, k \in KChoices :
           procs = [p \in ProcIds |->
                       IF p = 1 THEN StartSolve("generate_k_routes", o, d, c, k)
                       ELSE NoSolve]
    /\ lastCall = [op |-> "none"]
    /\ result = [kind |-> "none"]
    /\ risks = <<>>
    /\ cvarOut = EmptyFn

SpecKRoutes == InitKRoutes /\ [][NextConc]_vars

\* the statements of the padding loop (game_theory.py 127-160)
PadPcs == {"pad_test", "pad_set", "pad_path", "pad_del", "pad_check"}

HasTempPenalty(g) == \E e \in DOMAIN g : "temp_penalty" \in DOMAIN g[e]

\* C11: after _generate_k_routes returns, on every exit of the padding loop
\* (new route found, duplicate route, exception caught), no edge carries a
\* temp_penalty attribute, and no statement of the padding loop changes any
\* other edge attribute.
C11_PaddingLoopRestoresGraph ==
    /\ [](procs[1].pc = "done" => ~HasTempPenalty(graph))
    /\ [][procs[1].pc \in PadPcs =>
             Without(graph', "temp_penalty") = Without(graph, "temp_penalty")]_vars

\* the padding loop set penalties, found a route already known, and returned
C11_Witness ==
    /\ procs[1].pc = "done"
    /\ procs[1].out.kind = "returned"
    /\ procs[1].penalty_edges # {}
    /\ procs[1].diverse_path \in Range(procs[1].routes)
    /\ Len(procs[1].routes) < procs[1].k
    /\ ~HasTempPenalty(graph)

----------------------------------------------------------------------------
(* StackelbergRouter._solve_zero_sum_game  (game_theory.py 274-298)

   payoff_matrix is a sequence of K rows of M entries, in halves (every
   entry is -interception_prob, game_theory.py 229-235, so it lies in
   -1.0 .. 0.0).  A mixed strategy is kept exactly, as the numerators num
   over one positive denominator den.

   nash.Game(A, -A).support_enumeration() is modelled by what it computes:
   for every pair of supports, in the order of increasing size and then of
   itertools.combinations, the indifference equations are solved for both
   players, the solutions are tested against the supports, and the pair is
   yielded when no pure strategy outside a support does better. *)

MaxK == 2
ConfigCounts == {1, 2, 3}
Payoffs == {-2, -1, 0}

PayoffMatrices ==
    UNION {[1..K -> [1..M -> Payoffs]] : K \in 1..MaxK, M \in ConfigCounts}

\* the elements of a set of integers, ascending
RECURSIVE SeqOf(_)
SeqOf(S) == IF S = {} THEN <<>> ELSE <<SetMin(S)>> \o SeqOf(S \ {SetMin(S)})

\* the matrix without row 1 and column j
Minor(mat, j) ==
    [r \in 1..(Len(mat) - 1) |->
        [c \in 1..(Len(mat) - 1) |-> mat[r + 1][IF c < j THEN c ELSE c + 1]]]

RECURSIVE Det(_)
Det(mat) ==
    IF Len(mat) = 0 THEN 1
    ELSE LET term(j) == (IF j % 2 = 1 THEN 1 ELSE -1) * mat[1][j] * Det(Minor(mat, j))
         IN  SumSeq([j \in 1..Len(mat) |-> term(j)])

\* -A transposed: the payoff matrix of the column player, by columns
NegTranspose(A) == [j \in 1..Len(A[1]) |-> [i \in 1..Len(A) |-> 0 - A[i][j]]]

\* nashpy solve_indifference(P, rows, columns): the mix x over `columns'
\* that makes the strategies `rows' of P equally good, x = 0 elsewhere and
\* sum x = 1.  The linear system is square only when the two supports have
\* the same size; np.linalg.solve raises LinAlgError otherwise, and on a
\* singular matrix; a solution with a negative entry is refused.
SolveIndifference(P, rows, columns) ==
    LET rs == SeqOf(rows)
        cs == SeqOf(columns)
        m  == Len(cs)
        n  == Len(P[1])
        sys == [k \in 1..m |->
                 [c \in 1..m |->
                    IF k = m THEN 1
                    ELSE P[rs[k]][cs[c]] - P[rs[IF k = 1 THEN m ELSE k - 1]][cs[c]]]]
        d  == Det(sys)
        replaced(c0) == [k \in 1..m |->
                           [c \in 1..m |-> IF c = c0 THEN (IF k = m THEN 1 ELSE 0)
                                                     ELSE sys[k][c]]]
        sgn == IF d < 0 THEN -1 ELSE 1
        x(c0) == sgn * Det(replaced(c0))
        pos(j) == CHOOSE c \in 1..m : cs[c] = j
        num == [j \in 1..n |-> IF j \in columns THEN x(pos(j)) ELSE 0]
    IN  IF Len(rs) # m \/ d = 0 THEN [ok |-> FALSE]
        ELSE IF \E j \in 1..n : num[j] < 0 THEN [ok |-> FALSE]
        ELSE [ok |-> TRUE, num |-> num, den |-> sgn * d]

\* nashpy obey_support: positive inside the support, zero outside
ObeySupport(s, support) ==
    /\ s.ok
    /\ \A j \in DOMAIN s.num : (j \in support) <=> (s.num[j] > 0)

SetMax(S) == CHOOSE x \in S : \A y \in S : y <= x

\* nashpy is_ne: no pure strategy outside a support does better
IsNe(A, u, v, sup1, sup2) ==
    LET row_payoffs    == [i \in 1..Len(A) |->
                             SumSeq([j \in 1..Len(A[1]) |-> A[i][j] * v.num[j]])]
        column_payoffs == [j \in 1..Len(A[1]) |->
                             SumSeq([i \in 1..Len(A) |-> (0 - A[i][j]) * u.num[i]])]
    IN  /\ SetMax(Range(row_payoffs)) = SetMax({row_payoffs[i] : i \in sup1})
        /\ SetMax(Range(column_payoffs)) = SetMax({column_payoffs[j] : j \in sup2})

Supports(n) == SUBSET (1..n) \ {{}}

\* the order of itertools.combinations over increasing sizes
SupLess(S, T) ==
    \/ Cardinality(S) < Cardinality(T)
    \/ /\ Cardinality(S) = Cardinality(T)
       /\ S # T
       /\ SetMin((S \ T) \cup (T \ S)) \in S

\* the equilibria support enumeration finds in exact arithmetic
Equilibria(A) ==
    LET K == Len(A)
        M == Len(A[1])
        try(sup1, sup2) ==
            [sup1 |-> sup1, sup2 |-> sup2,
             s1 |-> SolveIndifference(NegTranspose(A), sup2, sup1),
             s2 |-> SolveIndifference(A, sup1, sup2)]
    IN  {c \in {try(sup1, sup2) : sup1 \in Supports(K), sup2 \in Supports(M)} :
            /\ ObeySupport(c.s1, c.sup1)
            /\ ObeySupport(c.s2, c.sup2)
            /\ IsNe(A, c.s1, c.s2, c.sup1, c.sup2)}

Before(c2, c) ==
    \/ SupLess(c2.sup1, c.sup1)
    \/ c2.sup1 = c.sup1 /\ SupLess(c2.sup2, c.sup2)

\* In floating point a mixed solution with strategies outside the supports
\* can be lost: np.linalg.solve may return a tiny negative number where the
\* exact entry is 0, and is_ne compares dot products with ==.  Pure pairs
\* (unit vectors, exact) and full supports (nothing outside) are not at risk.
Fragile(A, c) ==
    /\ Cardinality(c.sup1) >= 2
    /\ c.sup1 # 1..Len(A) \/ c.sup2 # 1..Len(A[1])

UniformOnes(K) == [num |-> [i \in 1..K |-> 1], den |-> 1]

\* np.ones(K) / K
Uniform(K) == [num |-> [i \in 1..K |-> 1], den |-> K]

\* every (strategy, return statement) _solve_zero_sum_game can end with
SolveZeroSumGame(A) ==
    LET K  == Len(A)
        eq == Equilibria(A)
    IN  IF K = 1 THEN {[strategy |-> [num |-> <<1>>, den |-> 1], branch |-> "single"]}
        ELSE {[strategy |-> [num |-> c.s1.num, den |-> c.s1.den], branch |-> "equilibrium"] :
                 c \in {c \in eq : \A c2 \in eq : Before(c2, c) => Fragile(A, c2)}}
             \cup
             (IF \A c \in eq : Fragile(A, c)
              THEN {[strategy |-> Uniform(K), branch |-> "uniform"]} ELSE {})

InitGame ==
    /\ graph = EmptyFn
    /\ lastCall = [op |-> "none"]
    /\ result = [kind |-> "none"]
    /\ procs = <<>>
    /\ risks = <<>>
    /\ cvarOut = EmptyFn

\* game_theory.py 61: payoff_matrix = self._build_payoff_matrix(...)
CallBuildPayoffMatrix ==
    /\ Idle
    /\ \E A \in PayoffMatrices :
           /\ lastCall' = [op |-> "build_payoff_matrix"]
           /\ result' = [kind |-> "returned", payoff_matrix |-> A]
    /\ UNCHANGED <<graph, cvarVars, procs>>

\* game_theory.py 63: mixed_strategy = self._solve_zero_sum_game(payoff_matrix)
CallSolveZeroSumGame ==
    /\ lastCall.op = "build_payoff_matrix"
    /\ \E r \in SolveZeroSumGame(result.payoff_matrix) :
           /\ lastCall' = [op |-> "solve_zero_sum_game",
                           payoff_matrix |-> result.payoff_matrix,
                           branch |-> r.branch]
           /\ result' = [kind |-> "returned", strategy |-> r.strategy]
    /\ UNCHANGED <<graph, cvarVars, procs>>

NextGame ==
    \/ CallBuildPayoffMatrix
    \/ CallSolveZeroSumGame
    \/ ReturnToCaller

SpecGame == InitGame /\ [][NextGame]_vars

----------------------------------------------------------------------------
(* Claims about the mixed strategy *)

SolvedGame == lastCall.op = "solve_zero_sum_game"

IsProbabilityVector(s, K) ==
    /\ Len(s.num) = K
    /\ s.den > 0
    /\ \A i \in 1..K : s.num[i] >= 0
    /\ SumSeq(s.num) = s.den

\* C12: the strategy returned for a K x M payoff matrix is a probability
\* vector of length K in all three branches: K = 1 returns exactly [1.0], no
\* equilibrium returns the uniform vector 1/K, an equilibrium returns its
\* attacker strategy (the branch taken when K >= 2 and it is not the default).
C12_StrategyIsProbabilityVector ==
    SolvedGame =>
        LET K == Len(lastCall.payoff_matrix)
            s == result.strategy
        IN  /\ IsProbabilityVector(s, K)
            /\ (K = 1) <=> (lastCall.branch = "single")
            /\ lastCall.branch = "single" => s.num = <<1>> /\ s.den = 1
            /\ lastCall.branch = "uniform" => \A i \in 1..K : s.num[i] * K = s.den

\* the uniform default is returned for two routes
C12_Witness ==
    /\ SolvedGame
    /\ lastCall.branch = "uniform"
    /\ Len(lastCall.payoff_matrix) = 2
    /\ result.strategy.num = <<1, 1>>
    /\ result.strategy.den = 2

AllEntriesEqual(A) == \A i \in 1..Len(A), j \in 1..Len(A[1]) : A[i][j] = A[1][1]

\* C13: for a payoff matrix with K >= 2 rows whose entries are all equal the
\* returned strategy is uniform (every entry equals 1/K).
C13_EqualPayoffsGiveUniformStrategy ==
    (SolvedGame /\ Len(lastCall.payoff_matrix) >= 2 /\ AllEntriesEqual(lastCall.payoff_matrix)) =>
        \A i \in 1..Len(lastCall.payoff_matrix) :
            result.strategy.num[i] * Len(lastCall.payoff_matrix) = result.strategy.den

----------------------------------------------------------------------------
(* ParetoFrontGenerator._filter_dominated / _dominates  (pareto.py 98-151)

   A result is reduced to the fields the filter reads, time_minutes and
   cvar_95, and the method tag generate gives it (pareto.py 62), which
   tells the results of one sweep apart. *)

MaxResults == 3
MaxObjective == 2

ParetoPoint(i, time_minutes, cvar_95) ==
    [time_minutes |-> time_minutes, cvar_95 |-> cvar_95, method |-> <<"pareto", i>>]

ResultLists ==
    {[i \in DOMAIN f |-> ParetoPoint(i, f[i][1], f[i][2])] :
        f \in UNION {[1..n -> (0..MaxObjective) \X (0..MaxObjective)] : n \in 0..MaxResults}}

DominatesWeak(a, b) ==
    a.time_minutes <= b.time_minutes /\ a.cvar_95 <= b.cvar_95

\* pareto.py 129-151
Dominates(a, b) ==
    LET time_better          == a.time_minutes <= b.time_minutes
        risk_better          == a.cvar_95 <= b.cvar_95
        time_strictly_better == a.time_minutes < b.time_minutes
        risk_strictly_better == a.cvar_95 < b.cvar_95
    IN  time_better /\ risk_better /\ (time_strictly_better \/ risk_strictly_better)

\* pareto.py 98-127: result_i is appended, in the order of i, unless some
\* other result_j dominates it
FilterDominated(results) ==
    IF Len(results) <= 1 THEN results
    ELSE LET kept == {i \in DOMAIN results :
                         ~ \E j \in DOMAIN results : j # i /\ Dominates(results[j], results[i])}
             order == SeqOf(kept)
         IN  [k \in 1..Len(order) |-> results[order[k]]]

CallFilterDominated ==
    /\ Idle
    /\ \E results \in ResultLists :
           /\ lastCall' = [op |-> "filter_dominated", results |-> results]
           /\ result' = [kind |-> "returned", pareto |-> FilterDominated(results)]
    /\ UNCHANGED <<graph, cvarVars, procs>>

\* the filter applied to the front it has just returned
CallFilterDominatedAgain ==
    /\ lastCall.op = "filter_dominated"
    /\ lastCall' = [op |-> "filter_dominated", results |-> result.pareto]
    /\ result' = [kind |-> "returned", pareto |-> FilterDominated(result.pareto)]
    /\ UNCHANGED <<graph, cvarVars, procs>>

NextFilter ==
    \/ CallFilterDominated
    \/ CallFilterDominatedAgain
    \/ ReturnToCaller

SpecFilter == InitGame /\ [][NextFilter]_vars

----------------------------------------------------------------------------
(* Claim about the Pareto filter *)

Filtered == lastCall.op = "filter_dominated"

\* a <= b on both objectives and strictly less on one
ParetoBetter(a, b) ==
    /\ a.time_minutes <= b.time_minutes
    /\ a.cvar_95 <= b.cvar_95
    /\ a.time_minutes + a.cvar_95 < b.time_minutes + b.cvar_95

NonDominatedIn(x, results) == ~ \E y \in Range(results) : ParetoBetter(y, x)

Position(results, x) == CHOOSE i \in DOMAIN results : results[i] = x

\* C14: _filter_dominated returns, in input order, exactly the results that
\* no other input result dominates (results equal on both objectives are all
\* kept); applied to a list without dominated results it returns that list.
C14_FilterKeepsExactlyNonDominated ==
    Filtered =>
        LET results == lastCall.results
            pareto  == result.pareto
        IN  /\ \A x \in Range(pareto) : x \in Range(results) /\ NonDominatedIn(x, results)
            /\ \A x \in Range(results) : NonDominatedIn(x, results) => x \in Range(pareto)
            /\ \A a \in DOMAIN pareto, b \in DOMAIN pareto :
                   a < b => Position(results, pareto[a]) < Position(results, pareto[b])
            /\ (\A x \in Range(results) : NonDominatedIn(x, results)) => pareto = results

\* three results, the first dominated, the other two equal on both objectives
C14_Witness ==
    /\ Filtered
    /\ Len(lastCall.results) = 3
    /\ Len(result.pareto) = 2
    /\ result.pareto[1] = lastCall.results[2]
    /\ result.pareto[2] = lastCall.results[3]
    /\ result.pareto[1].time_minutes = result.pareto[2].time_minutes
    /\ result.pareto[1].cvar_95 = result.pareto[2].cvar_95

----------------------------------------------------------------------------
(* ParetoFrontGenerator.generate  (pareto.py 25-74) and the solve of
   CVaRRouter.optimize with its default solver (cvar_routing.py 108-181)

   A weight pair is kept as (time, risk) over the common denominator den. *)

\* constants.py 258
PARETO_NUM_POINTS == 5

\* constants.py 259-265, in quarters
PARETO_WEIGHTS ==
    <<[time |-> 4, risk |-> 0, den |-> 4], [time |-> 3, risk |-> 1, den |-> 4],
      [time |-> 2, risk |-> 2, den |-> 4], [time |-> 1, risk |-> 3, den |-> 4],
      [time |-> 0, risk |-> 4, den |-> 4]>>

\* pareto.py 76-96: ratio = i / (num_points - 1), or 0.5 for a single point
GenerateWeights(num_points) ==
    [k \in 1..num_points |->
        IF num_points > 1
        THEN [time |-> num_points - k, risk |-> k - 1, den |-> num_points - 1]
        ELSE [time |-> 1, risk |-> 1, den |-> 2]]

\* pareto.py 48 and the slice weights[:num_points] of line 50
SweepWeights(num_points) ==
    LET weights == IF Len(PARETO_WEIGHTS) >= num_points THEN PARETO_WEIGHTS
                   ELSE GenerateWeights(num_points)
    IN  SubSeq(weights, 1, IF num_points < Len(weights) THEN num_points ELSE Len(weights))

\* cvar_routing.py 149-154: the risk of a selection under one scenario
SelectionRisk(g, sel, scenario, cargo_value) ==
    LET edges == EdgeListOf(DOMAIN g)
    IN  SumSeq([i \in DOMAIN edges |->
                   IF edges[i] \in sel THEN GetEdgeRisk(g, edges[i], scenario, cargo_value)
                   ELSE 0])

\* cvar_routing.py 158-161
SelectionTime(g, sel) ==
    LET edges == EdgeListOf(DOMAIN g)
    IN  SumSeq([i \in DOMAIN edges |->
                   IF edges[i] \in sel THEN Get(g[edges[i]], "travel_time_hours", 100) ELSE 0])

\* cvar_routing.py 163: eta + 1/(1 - alpha) * sum(z) / num_scenarios at the
\* best eta and z.  With alpha = 0.95 and fewer than 20 scenarios the factor
\* 1 / ((1 - alpha) * num_scenarios) exceeds 1, so the best eta is the
\* largest scenario risk and every z is 0.
SelectionCvar(g, sel, scenarios, cargo_value) ==
    SetMax({SelectionRisk(g, sel, scenarios[s], cargo_value) : s \in DOMAIN scenarios})

\* cvar_routing.py 165-168, times weight.den, in units of 1 / RiskScale
\* (travel_time_hours is in hundredths of an hour)
Objective(g, sel, scenarios, cargo_value, weight) ==
    weight.time * SelectionTime(g, sel) * (RiskScale \div 100)
        + weight.risk * SelectionCvar(g, sel, scenarios, cargo_value)

\* what solver_instance.solve(model) of glpk (no time limit) leaves in x
OptimalSelections(g, origin, destination, scenarios, cargo_value, weight) ==
    LET feasible == FeasibleSelections(g, origin, destination)
    IN  {sel \in feasible :
            \A other \in feasible :
                Objective(g, sel, scenarios, cargo_value, weight)
                    <= Objective(g, other, scenarios, cargo_value, weight)}

\* the outcomes of construction and solve with the default solver, for the
\* scenarios the call has drawn
GlpkOutcomes(g, origin, destination, scenarios, cargo_value, weight) ==
    (IF TrivialFlowRule(g) THEN {[kind |-> "build_error", sel |-> {}]} ELSE {})
    \cup {[kind |-> "solve_raised", sel |-> {}]}
    \cup (IF FeasibleSelections(g, origin, destination) = {}
          THEN {[kind |-> "no_solution", sel |-> {}]}
          ELSE {[kind |-> "solution", sel |-> s] :
                   s \in OptimalSelections(g, origin, destination, scenarios, cargo_value, weight)})

\* cvar_routing.py 83-195 with weights: the scenarios are drawn first (108)
\* and the result is built from the same scenarios (195)
OptimizeWeighted(g, o, d, cargo_value, weight) ==
    UNION {
        UNION {
            IF outcome.kind \in {"build_error", "no_solution"} THEN {Raised("ValueError")}
            ELSE IF outcome.kind = "solve_raised" THEN {r.res : r \in ShortestTime(g, o, d)}
            ELSE LET node_path == EdgesToPath(SelectedEdges(g, outcome.sel), o, d)
                 IN  IF node_path = <<>> THEN {r.res : r \in ShortestTime(g, o, d)}
                     ELSE {BuildRouteResult(g, node_path, scenarios, cargo_value, "cvar")} :
            outcome \in GlpkOutcomes(g, o, d, scenarios, cargo_value, weight)} :
        scenarios \in GenerateScenarios}

RECURSIVE Factorial(_)
Factorial(n) == IF n <= 1 THEN 1 ELSE n * Factorial(n - 1)

\* a CVaR fraction in whole units: its denominator is the size of the tail,
\* at most the number of scenarios
CvarUnits(f) == f.num * (Factorial(NumScenarios) \div f.den)

\* pareto.py 50-68: the results of the sweep from weight i on, appended to
\* results; a call that raises is skipped
RECURSIVE Sweep(_, _, _, _, _, _, _)
Sweep(g, o, d, cargo_value, weights, i, results) ==
    IF i > Len(weights) THEN {results}
    ELSE UNION {
            Sweep(g, o, d, cargo_value, weights, i + 1,
                  IF r.kind = "raised" THEN results
                  ELSE Append(results, ParetoPoint(i, r.time_minutes, CvarUnits(r.cvar_95)))) :
            r \in OptimizeWeighted(g, o, d, cargo_value, weights[i])}

NumPointsChoices == {3, PARETO_NUM_POINTS}

\* a connected pair and a pair without path
SweepPairs == {<<0, 3>>, <<3, 0>>}

\* one road, two roads of equal travel time, and the two named graphs
OneRoad == Restrict(FullGraph, {<<0, 3>>})
TwoRoads == Restrict(FullGraph, {<<0, 1>>, <<1, 3>>, <<0, 2>>, <<2, 3>>})
ParetoGraphs == {OneRoad, TwoRoads, SimpleGraph}

InitPareto ==
    /\ graph \in ParetoGraphs
    /\ lastCall = [op |-> "none"]
    /\ result = [kind |-> "none"]
    /\ procs = <<>>
    /\ risks = <<>>
    /\ cvarOut = EmptyFn

\* pareto.py 25-74
CallGenerate ==
    /\ Idle
    /\ \E od \in SweepPairs, c \in CargoValues, num_points \in NumPointsChoices :
           \E results \in Sweep(graph, od[1], od[2], c, SweepWeights(num_points), 1, <<>>) :
               /\ lastCall' = [op |-> "generate", origin |-> od[1], destination |-> od[2],
                               cargo_value |-> c, num_points |-> num_points,
                               weights |-> SweepWeights(num_points), results |-> results]
               /\ result' = [kind |-> "returned", pareto |-> FilterDominated(results)]
    /\ UNCHANGED <<graph, cvarVars, procs>>

NextPareto ==
    \/ CallGenerate
    \/ ReturnToCaller

SpecPareto == InitPareto /\ [][NextPareto]_vars

----------------------------------------------------------------------------
(* Claims about the Pareto sweep *)

Generated == lastCall.op = "generate"

\* the weight pair a computed point was solved with
WeightOf(point) == lastCall.weights[point.method[2]]

\* C15: a sweep yields at most as many non-dominated points as weights (3
\* for the weights (1,0), (0.5,0.5), (0,1)); the result computed with the
\* all-time weight (1,0) has the minimum time_minutes of the front and the
\* result computed with the all-risk weight (0,1) has the minimum cvar_95 of
\* the front.
C15_FrontExtremesComeFromExtremeWeights ==
    Generated =>
        /\ Len(result.pareto) <= Len(lastCall.weights)
        /\ \A x \in Range(lastCall.results) :
               WeightOf(x).risk = 0 =>
                   \A y \in Range(result.pareto) : x.time_minutes <= y.time_minutes
        /\ \A x \in Range(lastCall.results) :
               WeightOf(x).time = 0 =>
                   \A y \in Range(result.pareto) : x.cvar_95 <= y.cvar_95

\* C16: when no Pareto point can be computed (every optimize call fails),
\* generate signals an error instead of returning a value.
C16_EmptyFrontIsAnError ==
    (Generated /\ lastCall.results = <<>>) => result.kind = "raised"

\* C30: for every num_points K >= 2, generate calls optimize with exactly K
\* weight pairs (weight_time, weight_risk) that each sum to 1 and are equally
\* spaced from all-time (1,0) to all-risk (0,1) inclusive; K = 3 sweeps
\* (1,0), (0.5,0.5), (0,1).
C30_SweepWeightsAreEquallySpaced ==
    (Generated /\ lastCall.num_points >= 2) =>
        LET K == lastCall.num_points
            w == lastCall.weights
        IN  /\ Len(w) = K
            /\ \A i \in DOMAIN w :
                   /\ w[i].time + w[i].risk = w[i].den
                   /\ w[i].time * (K - 1) = w[i].den * (K - i)
                   /\ w[i].risk * (K - 1) = w[i].den * (i - 1)

----------------------------------------------------------------------------
(* Routing around a kill zone *)

\* graph_builder.py 268: without threat predictor detection_base is
\* visibility * 0.3, so an edge that cannot be seen has detection_base 0;
\* here that edge, 1->3, lies inside a kill zone (graph_builder.py 272-275)
HiddenKillZone ==
    (<<0, 1>> :> Enriched(2, 4, 2, 5, 1)) @@ (<<1, 3>> :> Enriched(2, 4, 0, 0, 1000))
    @@ (<<0, 2>> :> Enriched(3, 3, 8, 8, 1)) @@ (<<2, 3>> :> Enriched(3, 3, 8, 8, 1))

KillZoneGraphs == {HiddenKillZone, FullGraph}

InitKillZone ==
    /\ graph \in KillZoneGraphs
    /\ lastCall = [op |-> "none"]
    /\ result = [kind |-> "none"]
    /\ procs = <<>>
    /\ risks = <<>>
    /\ cvarOut = EmptyFn

SpecKillZone == InitKillZone /\ [][Next]_vars

\* graph_builder.py 478-479: the penalty of an edge whose midpoint is inside
\* a kill zone
InKillZone(g, e) == Get(g[e], "killzone_penalty", 1) = 1000

\* C17: when an o->d path avoiding every kill-zone edge exists, the route
\* returned by mean_risk or optimize either uses no kill-zone edge or has a
\* cvar_95 of at least 10 times the cvar_95 of a kill-zone-free alternative
\* (on the scenarios of the call).
C17_KillZoneAvoidedOrTenfoldRisk ==
    (Returned /\ lastCall.op \in {"mean_risk", "optimize"} /\ result.method \in {"mean_risk", "cvar"}) =>
        LET free == {q \in SimplePaths(DOMAIN graph, lastCall.origin, lastCall.destination) :
                        \A e \in PathEdges(q) : ~InKillZone(graph, e)}
            alt(q) == BuildRouteResult(graph, q, lastCall.scenarios, lastCall.cargo_value, "alternative")
        IN  free # {} =>
              \/ \A e \in PathEdges(result.node_path) : ~InKillZone(graph, e)
              \/ \E q \in free :
                     CvarUnits(alt(q).cvar_95) <= CvarUnits(result.cvar_95) \div 10

----------------------------------------------------------------------------
(* GraphBuilder._compute_killzone_penalty  (graph_builder.py 443-490)

   A kill zone is reduced to what the function reads of it: its radius_km
   and the haversine distance of its center to the edge midpoint, both in
   quarters of a kilometre.  A penalty is in millionths. *)

MaxZones == 2
MaxDistance == 17
Radii == {4, 8}

PenaltyScale == 1000 * 1000

KillZones == [distance_km : 0..MaxDistance, radius_km : Radii]

KillZoneLists == UNION {[1..n -> KillZones] : n \in 0..MaxZones}

\* the terms x^k / k! of the exponential series for x = num / den >= 0, from
\* term k on, each rounded down: their sum is a lower bound of exp(x)
ExpTerms == 12

RECURSIVE ExpSeries(_, _, _, _)
ExpSeries(num, den, k, term) ==
    IF k > ExpTerms THEN 0
    ELSE term + ExpSeries(num, den, k + 1, (term * num) \div (den * (k + 1)))

\* math.exp(num / den), in millionths, rounded down
ExpLower(num, den) == ExpSeries(num, den, 0, PenaltyScale)

\* graph_builder.py 478-486: the penalty of one kill zone;
\* proximity = 1 - (d - r) / (0.5 r) = (3 r - 2 d) / r
Penalty(kz) ==
    LET d == kz.distance_km
        r == kz.radius_km
    IN  IF d < r THEN 1000 * PenaltyScale
        ELSE IF 2 * d < 3 * r THEN 50 * ExpLower(3 * (3 * r - 2 * d), r)
        ELSE IF d < 2 * r THEN 10 * PenaltyScale
        ELSE PenaltyScale

\* graph_builder.py 465-490: 1.0 without kill zones, else the largest penalty
RECURSIVE ComputeKillzonePenalty(_)
ComputeKillzonePenalty(kill_zones) ==
    IF kill_zones = <<>> THEN PenaltyScale
    ELSE LET rest == ComputeKillzonePenalty(SubSeq(kill_zones, 1, Len(kill_zones) - 1))
             last == Penalty(kill_zones[Len(kill_zones)])
         IN  IF last > rest THEN last ELSE rest

CallComputeKillzonePenalty ==
    /\ Idle
    /\ \E kill_zones \in KillZoneLists :
           /\ lastCall' = [op |-> "compute_killzone_penalty", kill_zones |-> kill_zones]
           /\ result' = [kind |-> "returned", penalty |-> ComputeKillzonePenalty(kill_zones)]
    /\ UNCHANGED <<graph, cvarVars, procs>>

NextPenalty ==
    \/ CallComputeKillzonePenalty
    \/ ReturnToCaller

SpecPenalty == InitGame /\ [][NextPenalty]_vars

\* C18: for every distance d >= 0, radius r > 0 and list of kill zones the
\* penalty lies in [1, 1000]; it equals 1000 whenever d < r for some zone and
\* never exceeds 1000, also at d = r and in the band r <= d < 1.5 r.
C18_PenaltyBetweenOneAndThousand ==
    lastCall.op = "compute_killzone_penalty" =>
        /\ result.penalty >= PenaltyScale
        /\ result.penalty <= 1000 * PenaltyScale
        /\ (\E i \in DOMAIN lastCall.kill_zones :
               lastCall.kill_zones[i].distance_km < lastCall.kill_zones[i].radius_km)
             => result.penalty = 1000 * PenaltyScale

----------------------------------------------------------------------------
(* CVaRRouter._get_edge_risk on its own  (cvar_routing.py 304-336) *)

\* the documented ranges of the multipliers (cvar_routing.py 294-298), in
\* tenths: their ends and their middle
RangeScenarios ==
    [visibility_mult : {7, 10, 13}, detection_mult : {8, 10, 12},
     patrol_presence : {8, 10, 12, 15}]

\* cargo_value, 0 to 10
CargoRange == {0, 2, 7, 10}

EdgeRiskGraphs == {SimpleGraph, FullGraph, HiddenKillZone}

InitEdgeRisk ==
    /\ graph \in EdgeRiskGraphs
    /\ lastCall = [op |-> "none"]
    /\ result = [kind |-> "none"]
    /\ procs = <<>>
    /\ risks = <<>>
    /\ cvarOut = EmptyFn

CallGetEdgeRisk ==
    /\ Idle
    /\ \E edge \in DOMAIN graph, scenario \in RangeScenarios, c \in CargoRange :
           /\ lastCall' = [op |-> "get_edge_risk", edge |-> edge, scenario |-> scenario,
                           cargo_value |-> c]
           /\ result' = [kind |-> "returned",
                         risk |-> GetEdgeRisk(graph, edge, scenario, c)]
    /\ UNCHANGED <<graph, cvarVars, procs>>

NextEdgeRisk ==
    \/ CallGetEdgeRisk
    \/ ReturnToCaller

SpecEdgeRisk == InitEdgeRisk /\ [][NextEdgeRisk]_vars

\* min(limit, a * b) for non-negative integers, without forming a * b when
\* it is beyond the limit
TimesUpTo(a, b, limit) ==
    IF a = 0 \/ b = 0 THEN 0
    ELSE IF a > limit \div b THEN limit
    ELSE IF a * b > limit THEN limit ELSE a * b

\* C19: _get_edge_risk returns
\*   min(10, detection_base * detection_mult * (1 + visibility * visibility_mult * 0.5)
\*             * patrol_presence * killzone_penalty * cargo_value / 10),
\* so the result lies in [0, 10], also for edges with killzone_penalty = 1000.
C19_EdgeRiskIsCappedProduct ==
    lastCall.op = "get_edge_risk" =>
        LET data  == graph[lastCall.edge]
            s     == lastCall.scenario
            ten   == 10 * RiskScale
            db    == IF "detection_base" \in DOMAIN data THEN data["detection_base"] ELSE 6
            vis   == IF "visibility" \in DOMAIN data THEN data["visibility"] ELSE 5
            kz    == IF "killzone_penalty" \in DOMAIN data THEN data["killzone_penalty"] ELSE 1
            \* (1 + visibility * visibility_mult * 0.5), in two-hundredths
            seen  == 200 + vis * s.visibility_mult
            prod  == TimesUpTo(TimesUpTo(TimesUpTo(TimesUpTo(TimesUpTo(
                         db, s.detection_mult, ten), seen, ten), s.patrol_presence, ten),
                         kz, ten), lastCall.cargo_value, ten)
        IN  /\ result.risk = prod
            /\ result.risk >= 0
            /\ result.risk <= ten

\* an edge inside a kill zone whose product is far beyond the cap
C19_Witness ==
    /\ lastCall.op = "get_edge_risk"
    /\ Get(graph[lastCall.edge], "killzone_penalty", 1) = 1000
    /\ Get(graph[lastCall.edge], "detection_base", 6) > 0
    /\ lastCall.cargo_value = 10
    /\ result.risk = 10 * RiskScale

----------------------------------------------------------------------------
(* The totals of a RouteResult  (cvar_routing.py 400-485) *)

\* the sum of the attribute key over the first n edges of the node path p
RECURSIVE PathAttr(_, _, _, _)
PathAttr(g, p, key, n) ==
    IF n = 0 THEN 0
    ELSE PathAttr(g, p, key, n - 1) + Get(g[<<p[n], p[n + 1]>>], key, 0)

\* the sum of _get_edge_risk over the first n edges of the node path p
RECURSIVE PathRisk(_, _, _, _, _)
PathRisk(g, p, scenario, cargo_value, n) ==
    IF n = 0 THEN 0
    ELSE PathRisk(g, p, scenario, cargo_value, n - 1)
           + GetEdgeRisk(g, <<p[n], p[n + 1]>>, scenario, cargo_value)

\* the sum of the path risks under the first n scenarios
RECURSIVE RiskTotal(_, _, _, _, _)
RiskTotal(g, p, scenarios, cargo_value, n) ==
    IF n = 0 THEN 0
    ELSE RiskTotal(g, p, scenarios, cargo_value, n - 1)
           + PathRisk(g, p, scenarios[n], cargo_value, Len(p) - 1)

\* C20: for every RouteResult built from a node path and a scenario list,
\* the risk of the path under a scenario is the sum of _get_edge_risk over
\* the path's consecutive edges, mean_risk is the arithmetic mean of these
\* per-scenario path risks, distance_km is the sum of the edges' distance_km
\* and time_minutes is 60 times the sum of the edges' travel_time_hours.
C20_RouteTotalsAreSumsOverEdges ==
    (Returned /\ result.node_path # <<>>) =>
        LET p  == result.node_path
            n  == Len(p) - 1
            sc == lastCall.scenarios
            \* shortest_distance and shortest_time build their result with
            \* cargo value 7.0 (cvar_routing.py 222, 247)
            c  == IF result.method \in {"shortest_distance", "shortest_time"} THEN 7
                  ELSE lastCall.cargo_value
        IN  /\ result.distance_km = PathAttr(graph, p, "distance_km", n)
            /\ result.time_minutes = 60 * PathAttr(graph, p, "travel_time_hours", n)
            /\ Len(sc) > 0
            /\ result.mean_risk.num * Len(sc)
                 = result.mean_risk.den * RiskTotal(graph, p, sc, c, Len(sc))

\* a route of several edges rebuilt from the MILP's selection, with
\* scenarios that differ
C20_Witness ==
    /\ Returned
    /\ result.method = "cvar"
    /\ Len(result.node_path) >= 3
    /\ result.mean_risk.num > 0
    /\ \E i, j \in DOMAIN lastCall.scenarios : lastCall.scenarios[i] # lastCall.scenarios[j]

----------------------------------------------------------------------------
(* GraphBuilder._simplify_to_digraph  (graph_builder.py 152-199) *)

MaxRaw == 3

\* the lengths of raw edges
RawLengths == {1, 2}

\* float("inf"), the key of an edge without length: above every length
NoLength == 3

RawNodes == {0, 1, 2}
RawPairs == {<<0, 1>>, <<1, 0>>}

\* the attributes of a raw edge: osmid always, length and geometry optional
RawDataOf(osmid, length, geometry) ==
    ("osmid" :> osmid)
      @@ (IF length = NoLength THEN EmptyFn ELSE ("length" :> length))
      @@ (IF geometry THEN ("geometry" :> "linestring") ELSE EmptyFn)

RawData == {RawDataOf(osmid, length, geometry) :
                osmid \in {1, 2}, length \in RawLengths \cup {NoLength},
                geometry \in BOOLEAN}

\* multi_graph.edges(data=True), in iteration order
RawEdgeLists == UNION {[1..n -> [pair : RawPairs, data : RawData]] : n \in 0..MaxRaw}

\* edges_grouped[(u, v)]: the data of the raw edges of the pair, in order
RECURSIVE EdgesGrouped(_, _)
EdgesGrouped(raw, pair) ==
    IF raw = <<>> THEN <<>>
    ELSE LET rest == EdgesGrouped(SubSeq(raw, 1, Len(raw) - 1), pair)
             e    == raw[Len(raw)]
         IN  IF e.pair = pair THEN Append(rest, e.data) ELSE rest

\* d.get("length", float("inf"))
LengthKey(d) == Get(d, "length", NoLength)

\* min(list, key=...): the first element with the smallest key
MinByLength(list) ==
    LET i == CHOOSE i \in DOMAIN list :
                 /\ \A j \in DOMAIN list : LengthKey(list[i]) <= LengthKey(list[j])
                 /\ \A j \in 1..(i - 1) : LengthKey(list[j]) > LengthKey(list[i])
    IN  list[i]

\* the geometry preference left out
EdgesWithGeomNone(edge_data_list) == <<>>

\* [d for d in edge_data_list if "geometry" in d]
EdgesWithGeom(edge_data_list) ==
    SelectSeq(edge_data_list, LAMBDA d : "geometry" \in DOMAIN d)

\* graph_builder.py 181-194
BestData(edge_data_list) ==
    IF Len(edge_data_list) = 1 THEN edge_data_list[1]
    ELSE IF EdgesWithGeom(edge_data_list) # <<>>
         THEN MinByLength(EdgesWithGeom(edge_data_list))
         ELSE MinByLength(edge_data_list)

\* the DiGraph: every node, and for each grouped pair the best data (an edge
\* is added only when its data is a non-empty dict, line 196)
SimplifyToDigraph(nodes, raw) ==
    LET grouped == {raw[i].pair : i \in DOMAIN raw}
        kept    == {pair \in grouped : BestData(EdgesGrouped(raw, pair)) # EmptyFn}
    IN  [nodes |-> nodes,
         edges |-> [pair \in kept |-> BestData(EdgesGrouped(raw, pair))]]

CallSimplifyToDigraph ==
    /\ Idle
    /\ \E raw \in RawEdgeLists :
           /\ lastCall' = [op |-> "simplify_to_digraph", nodes |-> RawNodes, edges |-> raw]
           /\ result' = [kind |-> "returned", G |-> SimplifyToDigraph(RawNodes, raw)]
    /\ UNCHANGED <<graph, cvarVars, procs>>

NextSimplify ==
    \/ CallSimplifyToDigraph
    \/ ReturnToCaller

SpecSimplify == InitGame /\ [][NextSimplify]_vars

\* the raw edges of a pair that may be retained: the shortest among those
\* with geometry if there is one, else the shortest of all
Retainable(raw, pair) ==
    LET all  == {i \in DOMAIN raw : raw[i].pair = pair}
        geom == {i \in all : "geometry" \in DOMAIN raw[i].data}
        pool == IF geom # {} THEN geom ELSE all
    IN  {i \in pool : \A j \in pool : LengthKey(raw[i].data) <= LengthKey(raw[j].data)}

\* C21: _simplify_to_digraph keeps all nodes and returns exactly one edge
\* (u, v) for each ordered pair with at least one raw edge and none
\* otherwise; with several parallel raw edges the retained attributes are
\* those of the minimum-length edge among the edges carrying geometry if any
\* does, else of the minimum-length edge overall; all attributes of the
\* chosen edge are preserved.
C21_SimplifyKeepsBestParallelEdge ==
    lastCall.op = "simplify_to_digraph" =>
        LET raw == lastCall.edges
        IN  /\ result.G.nodes = lastCall.nodes
            /\ DOMAIN result.G.edges = {raw[i].pair : i \in DOMAIN raw}
            /\ \A pair \in DOMAIN result.G.edges :
                   \E i \in Retainable(raw, pair) : result.G.edges[pair] = raw[i].data

\* a longer edge with geometry wins over a shorter one without
C21_Witness ==
    /\ lastCall.op = "simplify_to_digraph"
    /\ \E i, j \in DOMAIN lastCall.edges :
           /\ lastCall.edges[i].pair = lastCall.edges[j].pair
           /\ "geometry" \in DOMAIN lastCall.edges[i].data
           /\ "geometry" \notin DOMAIN lastCall.edges[j].data
           /\ LengthKey(lastCall.edges[j].data) < LengthKey(lastCall.edges[i].data)
           /\ result.G.edges[lastCall.edges[i].pair] = lastCall.edges[i].data

----------------------------------------------------------------------------
(* GraphBuilder.add_custom_nodes and enrich_graph
   (graph_builder.py 201-278, 354-441; terrain.py 219-270;
   threat_model.py 270-327) *)

\* In this specification graph holds the GraphBuilder: the nodes and edges of
\* its simplified_graph and whether terrain and threat_predictor were given.
\* Positions lie on one meridian, y in km, so that haversine_distance is the
\* difference of the two positions: 0 exactly for equal positions.
HaversineDistance(a, b) == IF a >= b THEN a - b ELSE b - a

\* speeds in hundredths of km/h, detection probabilities in thousandths
SpeedScale == 100
DetectionScale == 1000

\* graph_builder.py 282-308, for the highway tags of the modelled roads
ClassifyRoadType(highway) ==
    IF highway \in {"motorway", "trunk", "primary"} THEN "primary"
    ELSE IF highway \in {"secondary"} THEN "secondary"
    ELSE IF highway \in {"tertiary", "unclassified", "residential"} THEN "tertiary"
    ELSE IF highway \in {"track", "service"} THEN "track"
    ELSE IF highway \in {"path", "footway", "cycleway"} THEN "path"
    ELSE "track"

\* constants.py 74-104: the dry speeds, km/h
SpeedMapDry(road_type) ==
    CASE road_type = "primary"   -> 60
      [] road_type = "secondary" -> 40
      [] road_type = "tertiary"  -> 35
      [] road_type = "track"     -> 30
      [] road_type = "path"      -> 20
      [] road_type = "offroad"   -> 15
      [] OTHER                   -> 30

Weathers == {"clear", "rain", "rasputitsa"}

\* constants.py 151-187: speed_road and speed_offroad, in percent
WeatherFactor(weather, road_type) ==
    LET offroad == road_type \in {"track", "path", "offroad"}
    IN  CASE weather = "clear"      -> 100
          [] weather = "rain"       -> IF offroad THEN 30 ELSE 70
          [] weather = "rasputitsa" -> IF offroad THEN 5 ELSE 40
          [] OTHER                  -> 100

\* terrain.py 219-270 without slope: max(base_speed * weather_factor, 1.0)
GetMobilitySpeed(road_type, weather) ==
    LET speed == SpeedMapDry(road_type) * WeatherFactor(weather, road_type)
    IN  IF speed > SpeedScale THEN speed ELSE SpeedScale

\* temporal_mult of threat_model.py 299-307, in tenths: the trained model's
\* multiplier at the timestamp, 1.3 times higher at peak hours
TemporalMults == {10, 13}

\* threat_model.py 290-327 away from the predictor's kill zones:
\* min(base_risk * temporal_mult * weather_mult, 1.0)
RiskAt(road_type, weather, temporal_mult) ==
    LET base_risk    == IF road_type = "primary" THEN 400
                        ELSE IF road_type \in {"secondary", "tertiary"} THEN 320
                        ELSE IF road_type \in {"track", "path"} THEN 200
                        ELSE 100
        weather_mult == IF weather = "rain" THEN 50 ELSE 100
        total_risk   == (base_risk * temporal_mult * weather_mult) \div (10 * 100)
    IN  IF total_risk < DetectionScale THEN total_risk ELSE DetectionScale

\* viewshed: empty for None, else the array's value at the edge midpoints, in
\* percent
Viewsheds == {<<>>, <<0>>, <<100>>}

\* kill_zones of enrich_graph: none, or one zone (center y, radius_km)
EnrichKillZones == {<<>>, <<[center |-> 0, radius_km |-> 2]>>}

\* the kill zones as _compute_killzone_penalty sees them from the midpoint of
\* positions a and b (distances and radii doubled, the midpoint being a half)
SeenFrom(kill_zones, a, b) ==
    [i \in DOMAIN kill_zones |->
        [distance_km |-> HaversineDistance(a + b, 2 * kill_zones[i].center),
         radius_km   |-> 2 * kill_zones[i].radius_km]]

\* graph_builder.py 227-276: the attributes enrich_graph writes on one edge
EnrichEdge(b, pair, weather, viewshed, kill_zones, temporal_mult) ==
    LET data           == b.edges[pair]
        u_lat          == b.nodes[pair[1]].y
        v_lat          == b.nodes[pair[2]].y
        distance_km    == HaversineDistance(u_lat, v_lat)
        road_type      == ClassifyRoadType(Get(data, "highway", "track"))
        base_speed     == IF b.terrain THEN GetMobilitySpeed(road_type, weather)
                          ELSE 40 * SpeedScale
        visibility     == IF viewshed # <<>> /\ b.terrain THEN viewshed[1] ELSE 50
        detection_prob == IF b.threat_predictor THEN RiskAt(road_type, weather, temporal_mult)
                          ELSE visibility * 3
        travel_time    == IF base_speed > 0
                          THEN [num |-> distance_km * SpeedScale, den |-> base_speed]
                          ELSE [num |-> 999, den |-> 1]
    IN  ("distance_km" :> distance_km) @@ ("road_type" :> road_type)
          @@ ("base_speed_kmh" :> base_speed) @@ ("visibility" :> visibility)
          @@ ("rf_coverage_dbm" :> -80) @@ ("detection_base" :> detection_prob)
          @@ ("killzone_penalty" :> ComputeKillzonePenalty(SeenFrom(kill_zones, u_lat, v_lat)))
          @@ ("travel_time_hours" :> travel_time)
          @@ data

EnrichGraph(b, weather, viewshed, kill_zones, temporal_mult) ==
    [b EXCEPT !.edges = [pair \in DOMAIN b.edges |->
                            EnrichEdge(b, pair, weather, viewshed, kill_zones, temporal_mult)]]

\* graph_builder.py 425-441: the first of the nearest original nodes
FindNearestOriginalNode(b, lat, original_nodes) ==
    CHOOSE n \in original_nodes :
        \A other \in original_nodes :
            \/ HaversineDistance(lat, b.nodes[n].y) < HaversineDistance(lat, b.nodes[other].y)
            \/ /\ HaversineDistance(lat, b.nodes[n].y) = HaversineDistance(lat, b.nodes[other].y)
               /\ n <= other

\* the attributes of a synthetic edge (graph_builder.py 380-395, 406-421)
SyntheticEdge(distance_km, node_type) ==
    LET speed == IF node_type = "depot" THEN 30 ELSE 20
    IN  ("distance_km" :> distance_km)
          @@ ("road_type" :> IF node_type = "depot" THEN "track" ELSE "path")
          @@ ("travel_time_hours" :> [num |-> distance_km, den |-> speed])
          @@ ("base_speed_kmh" :> speed * SpeedScale)
          @@ ("detection_base" :> IF node_type = "depot" THEN 200 ELSE 150)

\* one loop of add_custom_nodes over positions[1..n]
RECURSIVE AddNodes(_, _, _, _, _, _)
AddNodes(b, positions, n, node_type, original_nodes, max_node_id) ==
    IF n = 0 THEN b
    ELSE LET before      == AddNodes(b, positions, n - 1, node_type, original_nodes, max_node_id)
             lat         == positions[n]
             node_id     == max_node_id + (n - 1) + 1
             nearest     == FindNearestOriginalNode(b, lat, original_nodes)
             distance_km == HaversineDistance(lat, b.nodes[nearest].y)
             edge        == SyntheticEdge(distance_km, node_type)
         IN  [before EXCEPT
                 !.nodes = (node_id :> [y |-> lat, node_type |-> node_type]) @@ @,
                 !.edges = (<<node_id, nearest>> :> edge) @@ (<<nearest, node_id>> :> edge) @@ @]

\* graph_builder.py 354-423
AddCustomNodes(b, depots, frontline_positions) ==
    LET original_nodes == DOMAIN b.nodes
        with_depots    == AddNodes(b, depots, Len(depots), "depot", original_nodes,
                                   SetMax(DOMAIN b.nodes))
    IN  AddNodes(with_depots, frontline_positions, Len(frontline_positions), "frontline",
                 original_nodes, SetMax(DOMAIN with_depots.nodes))

\* the simplified road graphs: two nodes 3 km apart joined both ways, without
\* and with a self-loop (a loop road, as OSM has them)
TwoWayRoad ==
    [nodes |-> (0 :> [y |-> 0, node_type |-> "road"]) @@ (1 :> [y |-> 3, node_type |-> "road"]),
     edges |-> (<<0, 1>> :> ("highway" :> "primary")) @@ (<<1, 0>> :> ("highway" :> "path"))]

LoopRoad ==
    [TwoWayRoad EXCEPT !.edges = (<<1, 1>> :> ("highway" :> "residential")) @@ @]

\* depots and frontline_positions of add_custom_nodes
DepotLists == {<<>>, <<1>>, <<3>>}
FrontlineLists == {<<>>, <<5>>}

InitBuilder ==
    /\ \E roads \in {TwoWayRoad, LoopRoad}, terrain \in BOOLEAN, threat_predictor \in BOOLEAN :
           graph = [nodes |-> roads.nodes, edges |-> roads.edges,
                    terrain |-> terrain, threat_predictor |-> threat_predictor]
    /\ lastCall = [op |-> "none"]
    /\ result = [kind |-> "none"]
    /\ procs = <<>>
    /\ risks = <<>>
    /\ cvarOut = EmptyFn

\* the application adds the custom nodes once, when the system is initialised
CallAddCustomNodes ==
    /\ Idle
    /\ \A n \in DOMAIN graph.nodes : graph.nodes[n].node_type = "road"
    /\ \E depots \in DepotLists, frontline_positions \in FrontlineLists :
           /\ graph' = AddCustomNodes(graph, depots, frontline_positions)
           /\ lastCall' = [op |-> "add_custom_nodes", depots |-> depots,
                           frontline_positions |-> frontline_positions]
           /\ result' = [kind |-> "returned"]
    /\ UNCHANGED <<cvarVars, procs>>

CallEnrichGraph ==
    /\ Idle
    /\ \E weather \in Weathers, viewshed \in Viewsheds, kill_zones \in EnrichKillZones,
          temporal_mult \in TemporalMults :
           /\ graph' = EnrichGraph(graph, weather, viewshed, kill_zones, temporal_mult)
           /\ lastCall' = [op |-> "enrich_graph", weather |-> weather, viewshed |-> viewshed,
                           kill_zones |-> kill_zones, temporal_mult |-> temporal_mult]
           /\ result' = [kind |-> "returned"]
    /\ UNCHANGED <<cvarVars, procs>>

NextBuilder ==
    \/ CallAddCustomNodes
    \/ CallEnrichGraph
    \/ ReturnToCaller

SpecBuilder == InitBuilder /\ [][NextBuilder]_vars

\* the edges that enrich_graph or add_custom_nodes has attributed
Attributed == {pair \in DOMAIN graph.edges : "distance_km" \in DOMAIN graph.edges[pair]}

\* C22: after enrich_graph (and after add_custom_nodes) every edge of the
\* attributed graph, self-loops, edges between coincident nodes and synthetic
\* depot and frontline edges included, has distance_km > 0,
\* base_speed_kmh > 0 and a finite travel_time_hours equal to
\* distance_km / base_speed_kmh.
C22_EdgesHavePositiveDistanceAndSpeed ==
    \A pair \in Attributed :
        LET data == graph.edges[pair]
        IN  /\ data["distance_km"] > 0
            /\ data["base_speed_kmh"] > 0
            /\ data["travel_time_hours"].den > 0
            /\ data["travel_time_hours"].num * data["base_speed_kmh"]
                 = data["travel_time_hours"].den * data["distance_km"] * SpeedScale

\* the edges joining a synthetic node of the type to its road node
SyntheticEdges(node_type) ==
    {pair \in DOMAIN graph.edges :
        \E i \in 1..2 : graph.nodes[pair[i]].node_type = node_type}

\* C23: after add_custom_nodes followed by zero or more enrich_graph calls,
\* each synthetic depot edge still has road_type track, base_speed_kmh 30
\* and detection_base 0.2, and each synthetic frontline edge still has
\* road_type path, base_speed_kmh 20 and detection_base 0.15.
C23_SyntheticEdgesKeepTheirAttributes ==
    /\ \A pair \in SyntheticEdges("depot") :
           /\ graph.edges[pair]["road_type"] = "track"
           /\ graph.edges[pair]["base_speed_kmh"] = 30 * SpeedScale
           /\ graph.edges[pair]["detection_base"] = 200
    /\ \A pair \in SyntheticEdges("frontline") :
           /\ graph.edges[pair]["road_type"] = "path"
           /\ graph.edges[pair]["base_speed_kmh"] = 20 * SpeedScale
           /\ graph.edges[pair]["detection_base"] = 150

----------------------------------------------------------------------------
(* The waypoints of a RouteResult  (cvar_routing.py 435-457) *)

MaxPathNodes == 31

\* one road through the nodes 0 .. MaxPathNodes - 1
LineRoad ==
    [e \in {<<i, i + 1>> : i \in 0..(MaxPathNodes - 2)} |->
        Enriched(1 + (e[1] % 2), 1 + (e[1] % 3), 1, 5, 1)]

InitWaypoints ==
    /\ graph = LineRoad
    /\ lastCall = [op |-> "none"]
    /\ result = [kind |-> "none"]
    /\ procs = <<>>
    /\ risks = <<>>
    /\ cvarOut = EmptyFn

\* shortest_time(o, d) on the road: the node path is the stretch from o to d
CallBuildRouteResult ==
    /\ Idle
    /\ \E o \in 0..(MaxPathNodes - 1), d \in 0..(MaxPathNodes - 1), s \in ScenarioSet :
         LET sc == [i \in 1..NumScenarios |-> s] IN
           /\ o <= d
           /\ lastCall' = Call("shortest_time", o, d, 7, NoSolver, sc)
           /\ result' = BuildRouteResult(graph, [i \in 1..(d - o + 1) |-> o + i - 1], sc, 7,
                                         "shortest_time")
    /\ UNCHANGED <<graph, cvarVars, procs>>

NextWaypoints ==
    \/ CallBuildRouteResult
    \/ ReturnToCaller

SpecWaypoints == InitWaypoints /\ [][NextWaypoints]_vars

\* the 0-based path index of the k-th waypoint (the nodes of a path differ)
WaypointIndex(k) ==
    (CHOOSE i \in DOMAIN result.node_path : result.node_path[i] = result.waypoints[k].node) - 1

\* C24: for every node path of length n >= 1 the waypoint list contains a
\* waypoint for the first node and for the last node, plus one for every
\* index i with i mod max(1, floor(n / 10)) = 0, in path order and with no
\* node index appearing twice.
C24_WaypointsAreSubsampledPath ==
    (Returned /\ result.node_path # <<>>) =>
        LET n        == Len(result.node_path)
            wp       == result.waypoints
            interval == IF n \div 10 >= 1 THEN n \div 10 ELSE 1
        IN  /\ \A k \in DOMAIN wp : \E i \in DOMAIN result.node_path :
                   result.node_path[i] = wp[k].node
            /\ {WaypointIndex(k) : k \in DOMAIN wp}
                 = {i \in 0..(n - 1) : i = 0 \/ i = n - 1 \/ i % interval = 0}
            /\ \A k \in 1..(Len(wp) - 1) : WaypointIndex(k) < WaypointIndex(k + 1)

\* a path of 22 nodes: every second node, and the last one in addition
C24_Witness ==
    /\ Returned
    /\ Len(result.node_path) = 22
    /\ Len(result.waypoints) = 12
    /\ result.waypoints[12].node = result.node_path[22]
    /\ result.waypoints[11].node = result.node_path[21]

\* C25: each waypoint carries a cumulative ETA: the eta_hours of the waypoint
\* at path index i is the sum of travel_time_hours of the edges from the
\* origin up to node i, so the origin waypoint has ETA 0, ETAs are
\* non-decreasing along the path and only the destination waypoint has the
\* total travel time.
C25_WaypointEtaIsCumulative ==
    (Returned /\ result.node_path # <<>>) =>
        \A k \in DOMAIN result.waypoints :
            result.waypoints[k].eta_hours
              = PathAttr(graph, result.node_path, "travel_time_hours", WaypointIndex(k))

----------------------------------------------------------------------------
(* The route portfolio of _generate_k_routes  (game_theory.py 110-164) *)

\* the node paths of s differ pairwise
Distinct(s) == \A i, j \in DOMAIN s : i # j => s[i] # s[j]

\* C27: the portfolio returned by _generate_k_routes(origin, destination,
\* cargo_value, k) contains at most k routes and its node paths are pairwise
\* distinct: the cvar, fastest, shortest and mean-risk outputs and every
\* padded diverse route are added only when their node path differs from all
\* routes already in the portfolio.
C27_PortfolioIsDistinctAndAtMostK ==
    /\ Distinct(procs[1].routes)
    /\ (procs[1].pc = "done" /\ procs[1].out.kind = "returned") =>
           /\ Len(procs[1].out.paths) <= procs[1].k
           /\ Distinct(procs[1].out.paths)

\* the fastest route repeats the cvar route and is not added again; a padded
\* route completes the portfolio
C27_Witness ==
    /\ procs[1].pc = "done"
    /\ procs[1].out.kind = "returned"
    /\ procs[1].k = 3
    /\ Len(procs[1].out.paths) = 3
    /\ procs[1].diverse_path = procs[1].out.paths[3]
    /\ procs[1].penalty_edges # {}

\* the number of statements the padding loop of solve p can still execute,
\* at most: an iteration runs the loop test, the setting loop over
\* penalty_edges, the shortest path, the deleting loop over penalty_edges
\* and the membership test, and at most k - len(routes) iterations append
PadMeasure(p) ==
    LET me        == procs[p]
        loop      == Cardinality(DOMAIN graph) + 1
        iteration == 2 * loop + 4
        remaining == IF Len(me.routes) < me.k THEN me.k - Len(me.routes) ELSE 0
        position  == CASE me.pc = "pad_test"  -> 2 * loop + 3
                       [] me.pc = "pad_set"   -> loop + 2 + Cardinality(me.todo)
                       [] me.pc = "pad_path"  -> loop + 1
                       [] me.pc = "pad_del"   -> 1 + Cardinality(me.todo)
                       [] me.pc = "pad_check" -> 0
                       [] OTHER               -> 0
    IN  remaining * iteration + position

\* C28: the padding loop of _generate_k_routes always terminates: every
\* iteration either appends a route with a new distinct node path, which
\* brings the portfolio closer to k, or exits the loop, which it does as
\* soon as the penalized shortest path reproduces an existing node path or
\* raises; so at most k iterations are executed.
C28_PaddingLoopTerminates ==
    /\ [](procs[1].pc \in (PadPcs \ {"pad_test"}) =>
             /\ Len(procs[1].routes) < procs[1].k
             /\ Cardinality(procs[1].todo) < Cardinality(DOMAIN graph) + 1)
    /\ [][procs[1].pc \in PadPcs =>
             \/ procs'[1].pc = "done"
             \/ /\ procs'[1].pc \in PadPcs
                /\ PadMeasure(1)' < PadMeasure(1)]_vars
    /\ [][procs[1].pc = "pad_check" =>
             \/ procs'[1].pc = "done"
             \/ /\ Len(procs'[1].routes) = Len(procs[1].routes) + 1
                /\ procs[1].diverse_path \notin Range(procs[1].routes)]_vars
    /\ [][procs[1].pc = "pad_path" =>
             (procs'[1].pc = "done" \/ procs'[1].pc = "pad_del")]_vars

\* with k = 5 the loop is entered with fewer routes and left when the
\* penalized shortest path is a route of the portfolio
C28_Witness ==
    /\ procs[1].pc = "done"
    /\ procs[1].k = GAME_NUM_ROUTES
    /\ Len(procs[1].routes) >= 2
    /\ Len(procs[1].routes) < procs[1].k
    /\ procs[1].penalty_edges # {}
    /\ procs[1].diverse_path \in Range(procs[1].routes)

----------------------------------------------------------------------------
(* StackelbergRouter._generate_defender_configs  (game_theory.py 166-204) *)

\* route.path of the routes of a portfolio, a coordinate named by a number:
\* one route without path (origin and destination not connected), one route,
\* two routes
PortfolioPaths ==
    {<<<<>>>>, <<<<0, 1, 2, 3>>>>, <<<<0, 1>>, <<0, 2, 3, 1>>>>}

\* m, the number of configurations
ConfigChoices == {0, 1, 2}

\* route.path[::3]
EveryThird(path) == [i \in 1..((Len(path) + 2) \div 3) |-> path[3 * (i - 1) + 1]]

\* game_theory.py 183-186
RECURSIVE AllPositions(_)
AllPositions(routes) ==
    IF routes = <<>> THEN <<>>
    ELSE AllPositions(SubSeq(routes, 1, Len(routes) - 1)) \o EveryThird(routes[Len(routes)])

\* np.random.randint(2, 6)
NumPatrols == 2..5

\* np.random.uniform(0.7, 1.0), in percent: the ends and the middle
Effectiveness == {70, 85, 100}

\* game_theory.py 189-200: the configurations one iteration can draw; a
\* patrol is appended only when all_positions is not empty
DrawConfig(all_positions) ==
    {[patrols |-> patrol_positions, effectiveness |-> e] :
        patrol_positions \in
            (IF all_positions = <<>> THEN {<<>>}
             ELSE UNION {[1..num_patrols -> Range(all_positions)] : num_patrols \in NumPatrols}),
        e \in Effectiveness}

GenerateDefenderConfigs(routes, m) == [1..m -> DrawConfig(AllPositions(routes))]

CallGenerateDefenderConfigs ==
    /\ Idle
    /\ \E routes \in PortfolioPaths, m \in ConfigChoices :
           \E configs \in GenerateDefenderConfigs(routes, m) :
               /\ lastCall' = [op |-> "generate_defender_configs", routes |-> routes, m |-> m]
               /\ result' = [kind |-> "returned", configs |-> configs]
    /\ UNCHANGED <<graph, cvarVars, procs>>

NextConfigs ==
    \/ CallGenerateDefenderConfigs
    \/ ReturnToCaller

SpecConfigs == InitGame /\ [][NextConfigs]_vars

\* C26: _generate_defender_configs(routes, m) returns exactly m
\* configurations, each with an effectiveness in [0.7, 1.0] and between 2
\* and 5 patrol points, every patrol point being one of the positions
\* sampled along the candidate routes; this holds for any route list,
\* including one whose routes have empty coordinate paths.
C26_ConfigsHaveTwoToFivePatrols ==
    lastCall.op = "generate_defender_configs" =>
        /\ Len(result.configs) = lastCall.m
        /\ \A j \in DOMAIN result.configs :
               LET config == result.configs[j]
               IN  /\ config.effectiveness >= 70 /\ config.effectiveness <= 100
                   /\ Len(config.patrols) >= 2 /\ Len(config.patrols) <= 5
                   /\ \A i \in DOMAIN config.patrols :
                          \E r \in DOMAIN lastCall.routes :
                              \E n \in DOMAIN lastCall.routes[r] :
                                  /\ (n - 1) % 3 = 0
                                  /\ config.patrols[i] = lastCall.routes[r][n]

----------------------------------------------------------------------------
(* CVaRRouter._edges_to_path on any edge list  (cvar_routing.py 338-374) *)

MaxWalkEdges == 3

WalkNodes == {0, 1, 2}

\* edges: any list of pairs of nodes, selected by the solver or not
WalkEdgeLists == UNION {[1..n -> WalkNodes \X WalkNodes] : n \in 0..MaxWalkEdges}

CallEdgesToPath ==
    /\ Idle
    /\ \E edges \in WalkEdgeLists, origin \in WalkNodes, destination \in WalkNodes :
           /\ lastCall' = [op |-> "edges_to_path", edges |-> edges, origin |-> origin,
                           destination |-> destination]
           /\ result' = [kind |-> "returned", path |-> EdgesToPath(edges, origin, destination)]
    /\ UNCHANGED <<graph, cvarVars, procs>>

NextEdgesToPath ==
    \/ CallEdgesToPath
    \/ ReturnToCaller

SpecEdgesToPath == InitGame /\ [][NextEdgesToPath]_vars

\* C29: for every list of selected edges and every origin and destination
\* the walk of _edges_to_path performs at most |edges| + 1 steps and returns
\* either the empty list (empty edge list, no outgoing selected edge at the
\* current node, or destination not reached within the bound) or a node list
\* that starts at origin, ends at destination, whose consecutive pairs are
\* all selected edges, and in which no node appears twice.
C29_EdgesToPathGivesSimplePathOrNothing ==
    lastCall.op = "edges_to_path" =>
        LET path  == result.path
            edges == lastCall.edges
        IN  /\ lastCall.edges = <<>> => path = <<>>
            /\ path # <<>> =>
                   /\ path[1] = lastCall.origin
                   /\ path[Len(path)] = lastCall.destination
                   /\ Len(path) - 1 <= Len(edges) + 1
                   /\ \A i \in 1..(Len(path) - 1) : <<path[i], path[i + 1]>> \in Range(edges)
                   /\ \A i, j \in DOMAIN path : i # j => path[i] # path[j]

\* a path of three nodes, rebuilt from a list in which two edges leave the
\* origin
C29_Witness ==
    /\ lastCall.op = "edges_to_path"
    /\ Len(result.path) = 3
    /\ \E i, j \in DOMAIN lastCall.edges :
           /\ i < j
           /\ lastCall.edges[i][1] = lastCall.origin
           /\ lastCall.edges[j][1] = lastCall.origin

====
